---- MODULE Spec2Model ----
(***************************************************************************)
(* Voice-operated railway reservation assistant (src/app.py).              *)
(*                                                                         *)
(* The Streamlit script is re-run once per turn: main() dispatches on      *)
(* st.session_state.current_operation to one of process_main_menu,         *)
(* process_booking, process_modification, process_cancellation and         *)
(* process_view; each listens for one utterance and updates the session.   *)
(* The session state is modelled field by field; every handler is an       *)
(* operator from (session, heard utterance) to the session after the run,  *)
(* and every action is one run of main() in the step its guard names.      *)
(*                                                                         *)
(* Utterances are strings and the keyword tests, the regular expressions   *)
(* and the date arithmetic are computed on their characters.               *)
(***************************************************************************)
EXTENDS Integers, Sequences, FiniteSets, TLC

VARIABLES
    tickets,                \* st.session_state.tickets (ordered list of ticket dicts)
    current_operation,      \* None | "book" | "modify" | "cancel" | "view"
    booking_step,
    modify_step,
    cancel_step,
    view_step,
    ticket_details,         \* in-progress field buffer (dict)
    selected_ticket_id,
    last_viewed_ticket_id,  \* attribute absent until a ticket was viewed
    ticket_id_to_download,  \* attribute absent unless a download is set up
    first_run,
    show_success,
    issued,                 \* number of ticket ids generated so far
    today,                  \* datetime.now() as <<year, month, day>>
    voice_output,           \* the display_text_as_voice calls of the last run
    heard,                  \* what listen_for_command returned in the last run
    scenario                \* how many utterances of Scenario A the last turns matched

vars == <<tickets, current_operation, booking_step, modify_step, cancel_step,
          view_step, ticket_details, selected_ticket_id, last_viewed_ticket_id,
          ticket_id_to_download, first_run, show_success, issued, today,
          voice_output, heard, scenario>>

-----------------------------------------------------------------------------
(* Python values *)

\* None, for the string-valued session fields
None == "None"
\* a session attribute that was never set (hasattr(...) is False)
Unset == "Unset"
\* listen_for_command() returning None (timeout / unintelligible): falsy
NoInput == ""
\* the empty dict {} and a lookup that returned None (both falsy)
EmptyDict == <<>>

\* d[k] = v on a dict
Put(d, k, v) == [f \in (DOMAIN d) \cup {k} |-> IF f = k THEN v ELSE d[f]]

-----------------------------------------------------------------------------
(* Bounds and the utterances the user is modelled to say at each step *)

\* how many tickets are booked in one session
MaxTickets == 2

\* stations.get_station_list(): the fixed station catalog
get_station_list == <<"Central", "Eastside", "North">>

\* the 8-character identifiers the store generates, in the order it issues them
IdPool == <<"AB12CD34", "EF56GH78", "JK90LM12", "NP34QR56">>

\* the ids the user can read back: those of the tickets that can exist
KnownIds == {IdPool[i] : i \in 1..MaxTickets}
\* a well-formed id that no ticket has
UnknownId == "ZZ99ZZ99"

\* the dates the session may run on
ClockDates == {<<2026, 11, 3>>, <<2026, 12, 31>>}

\* Scenario A of the specification
ScenarioA == <<"book a ticket", "Jane Doe", "29", "female", "Central", "North",
               "tomorrow", "confirm">>

MenuInputs ==
    {"book a ticket", "Book a ticket", "Modify a ticket", "Cancel a ticket",
     "View tickets", "Help", "edit", "remove", "show all", "search by name",
     "lookup id", "hello"}
NameInputs == {"Jane Doe", "John Smith", "help"}
AgeInputs == {"29", "200", "help"}
\* what the user says in the update steps of Modify
UpdateNameInputs == {"John Smith", "help"}
UpdateAgeInputs == {"30", "200", "help"}
GenderInputs == {"female"}
UpdateGenderInputs == {"male", "help"}
SourceInputs == {"Central", "help"}
StationInputs == {"Central", "North", "help"}
DateInputs == {"tomorrow", "february 30", "help"}
BookConfirmInputs == {"confirm", "cancel", "help"}
SelectTicketInputs ==
    KnownIds \cup {UnknownId, "Jane Doe", "j", "help", "Jane Doe zz99zz99", "ticket ab12cd34"}
SelectFieldInputs ==
    {"name", "age", "gender", "source", "destination", "confirm", "cancel", "abort",
     "help"}
CancelConfirmInputs == {"confirm", "no", "help"}
DisplayOptionsInputs ==
    KnownIds \cup {"view ticket " \o id : id \in KnownIds}
             \cup {id \o " download" : id \in KnownIds}
             \cup {UnknownId, "all", "Jane Doe", "view ticket", "download ticket",
                   "downloads", "help"}
AskNameInputs == {"Jane Doe", "help"}
AskIdInputs == KnownIds \cup {UnknownId, "main menu", "help"}
ViewOptionsInputs ==
    {id \o " download" : id \in KnownIds}
        \cup {"download ticket", "downloads", "main menu", "help"}

\* what the user is modelled to say to the field parsers: ages at and around
\* the limits, with one number, several, or none; station names in part, in
\* full, abbreviated and unknown, two names at once, and a letter that three
\* names share
AgeProbes ==
    {"1", "120", "0", "121", "no idea", "200 or 30", "30 or 200", "I am 45", "a1"}
StationProbes ==
    {"cntrl", "central station", "east", "North", "n", "xyz", "north central", "T"}

\* answers to the gender question: each keyword in either case, both keywords,
\* 'male' inside another word, and no keyword
GenderProbes ==
    {"female", "Male", "FEMALE", "male or female", "I am a woman", "other",
     "prefer not to say", "42"}

\* answers to the travel date question: the relative keywords, alone and in a
\* sentence, a month and a day in either order, days the month does not have,
\* and utterances without a keyword or without a month and a day
DateProbes ==
    {"tomorrow", "today", "see you tomorrow", "March 30", "30 march", "december 31",
     "february 30", "february 29", "April 31", "next week", "march", "15", "march 0"}

\* answers to the confirmation of a booking and of a cancellation: each keyword
\* alone, keywords of both kinds together, and no keyword
BookConfirmProbes == {"confirm", "yes", "cancel", "no", "yes or no", "I do not know", "maybe"}
CancelConfirmProbes ==
    {"confirm", "yes", "delete", "no", "keep it", "don't", "don't delete it",
     "no, keep it", "maybe"}

\* main-menu commands built on the keywords of the lookup by ticket id
MenuProbes ==
    {"ticket id", "find id", "search id", "lookup id", "ticket number",
     "what is my ticket number"}

\* every utterance of the model
Utterances ==
    UNION {MenuInputs, NameInputs, AgeInputs, UpdateNameInputs, UpdateAgeInputs,
           UpdateGenderInputs, GenderInputs, SourceInputs, StationInputs, DateInputs,
           BookConfirmInputs, SelectTicketInputs, SelectFieldInputs, CancelConfirmInputs,
           DisplayOptionsInputs, AskNameInputs, AskIdInputs, ViewOptionsInputs}
        \cup {ScenarioA[i] : i \in 1..Len(ScenarioA)} \cup {NoInput}
        \cup AgeProbes \cup StationProbes \cup BookConfirmProbes \cup CancelConfirmProbes
        \cup MenuProbes \cup GenderProbes \cup DateProbes

-----------------------------------------------------------------------------
(* str methods and the `in` operator on strings *)

UpperAlpha == "ABCDEFGHIJKLMNOPQRSTUVWXYZ"
LowerAlpha == "abcdefghijklmnopqrstuvwxyz"
Digits == "0123456789"

Char(s, i) == SubSeq(s, i, i)

\* position of the one-character string c in alphabet, 0 when absent
IndexIn(c, alphabet) ==
    IF \E i \in 1..Len(alphabet) : Char(alphabet, i) = c
    THEN CHOOSE i \in 1..Len(alphabet) : Char(alphabet, i) = c
    ELSE 0

MapChar(c, from, to) ==
    IF IndexIn(c, from) = 0 THEN c ELSE Char(to, IndexIn(c, from))

RECURSIVE MapString(_, _, _)
MapString(s, from, to) ==
    IF Len(s) = 0 THEN ""
    ELSE MapChar(Char(s, 1), from, to) \o MapString(SubSeq(s, 2, Len(s)), from, to)

\* the strings the session handles: utterances, station names, and their
\* lower- and uppercased forms
Strings ==
    LET raw == Utterances \cup {get_station_list[i] : i \in 1..Len(get_station_list)}
        lowered == {MapString(u, UpperAlpha, LowerAlpha) : u \in raw}
    IN raw \cup lowered \cup {MapString(u, LowerAlpha, UpperAlpha) : u \in raw \cup lowered}

\* s.lower(), s.upper(), tabulated over Strings
LowerTable == [u \in Strings |-> MapString(u, UpperAlpha, LowerAlpha)]
UpperTable == [u \in Strings |-> MapString(u, LowerAlpha, UpperAlpha)]
lower(s) == LowerTable[s]
upper(s) == UpperTable[s]

\* k in s
Contains(k, s) ==
    \E i \in 0..(Len(s) - Len(k)) : SubSeq(s, i + 1, i + Len(k)) = k

\* set(s)
CharSet(s) == {Char(s, i) : i \in 1..Len(s)}

IsDigit(c) == IndexIn(c, Digits) # 0
IsUpperAlnum(c) == IndexIn(c, UpperAlpha) # 0 \/ IsDigit(c)
\* \w of the re module
IsWordChar(c) ==
    IndexIn(c, UpperAlpha) # 0 \/ IndexIn(c, LowerAlpha) # 0 \/ IsDigit(c) \/ c = "_"

\* \b holds between positions i-1 and i of s
WordBoundary(s, i) ==
    LET before == i > 1 /\ IsWordChar(Char(s, i - 1))
        after  == i <= Len(s) /\ IsWordChar(Char(s, i))
    IN before # after

\* int(digits)
RECURSIVE StrToInt(_)
StrToInt(s) ==
    IF Len(s) = 0 THEN 0
    ELSE 10 * StrToInt(SubSeq(s, 1, Len(s) - 1)) + (IndexIn(Char(s, Len(s)), Digits) - 1)

\* the start positions at which \b(\d+)\b with between lo and hi digits matches,
\* paired with the end position: a whole run of digits standing as a word
DigitRuns(s, lo, hi) ==
    {<<i, j>> \in (1..Len(s)) \X (1..Len(s)) :
        /\ i <= j
        /\ j - i + 1 >= lo
        /\ j - i + 1 <= hi
        /\ \A k \in i..j : IsDigit(Char(s, k))
        /\ WordBoundary(s, i)
        /\ WordBoundary(s, j + 1)}

\* re.search with the pattern \b(\d{lo,hi})\b: group(1) of the leftmost match,
\* "" when there is no match
FirstDigitRun(s, lo, hi) ==
    LET runs == DigitRuns(s, lo, hi)
    IN IF runs = {} THEN ""
       ELSE LET m == CHOOSE r \in runs : \A q \in runs : r[1] <= q[1]
            IN SubSeq(s, m[1], m[2])

\* re.search(r'\b(\d+)\b', s), tabulated over Strings
NumberTable == [u \in Strings |-> FirstDigitRun(u, 1, Len(u))]
SearchNumber(s) == NumberTable[s]

\* re.search(r'\b(\d{1,2})\b', s), tabulated over Strings
DayTable == [u \in Strings |-> FirstDigitRun(u, 1, 2)]
SearchDay(s) == DayTable[s]

\* re.search(r'\b([A-Z0-9]{8})\b', s): group(1) of the leftmost match, "" when none
FirstTicketId(s) ==
    LET starts == {i \in 1..(Len(s) - 7) :
                      /\ \A k \in i..(i + 7) : IsUpperAlnum(Char(s, k))
                      /\ WordBoundary(s, i)
                      /\ WordBoundary(s, i + 8)}
    IN IF starts = {} THEN ""
       ELSE LET i == CHOOSE a \in starts : \A b \in starts : a <= b
            IN SubSeq(s, i, i + 7)

\* the ticket id pattern, tabulated over Strings
TicketIdTable == [u \in Strings |-> FirstTicketId(u)]
SearchTicketId(s) == TicketIdTable[s]

-----------------------------------------------------------------------------
(* datetime *)

IsLeapYear(y) == (y % 4 = 0 /\ y % 100 # 0) \/ y % 400 = 0

DaysInMonth(y, m) ==
    IF m = 2 THEN (IF IsLeapYear(y) THEN 29 ELSE 28)
    ELSE IF m \in {4, 6, 9, 11} THEN 30 ELSE 31

\* a date check that lets every month have 31 days
ValidDate_any_month_31(y, m, d) == m \in 1..12 /\ d >= 1 /\ d <= 31

\* datetime(y, m, d) does not raise ValueError
ValidDate(y, m, d) == m \in 1..12 /\ d >= 1 /\ d <= DaysInMonth(y, m)

\* date + timedelta(days=1)
PlusOneDay(date) ==
    LET y == date[1]
        m == date[2]
        d == date[3]
    IN IF d < DaysInMonth(y, m) THEN <<y, m, d + 1>>
       ELSE IF m < 12 THEN <<y, m + 1, 1>>
       ELSE <<y + 1, 1, 1>>

\* zero-padded decimal of n in w digits
RECURSIVE ZeroPad(_, _)
ZeroPad(n, w) ==
    IF w = 0 THEN "" ELSE ZeroPad(n \div 10, w - 1) \o Char(Digits, (n % 10) + 1)

\* date.strftime("%Y-%m-%d")
strftime_iso(date) ==
    ZeroPad(date[1], 4) \o "-" \o ZeroPad(date[2], 2) \o "-" \o ZeroPad(date[3], 2)

\* datetime.strptime(s, "%Y-%m-%d"), as <<year, month, day>>
strptime_iso(s) ==
    <<StrToInt(SubSeq(s, 1, 4)), StrToInt(SubSeq(s, 6, 7)), StrToInt(SubSeq(s, 9, 10))>>

\* the keys of the months dict, in insertion order; the value is the position
months == <<"january", "february", "march", "april", "may", "june", "july",
            "august", "september", "october", "november", "december">>

\* the for-loop over months.items(): the first month name that occurs in the
\* input, 0 (month_num stays None) when none does
MonthNum(date_input) ==
    LET hits == {i \in 1..Len(months) : Contains(months[i], date_input)}
    IN IF hits = {} THEN 0 ELSE CHOOSE i \in hits : \A j \in hits : i <= j

-----------------------------------------------------------------------------
(* The station matching of the source and destination steps *)

\* a matching loop in which a later station of the same score replaces the
\* best match
RECURSIVE MatchLoop_last_wins(_, _, _, _, _)
MatchLoop_last_wins(input, stations, i, best_match, best_score) ==
    IF i > Len(stations) THEN best_match
    ELSE LET station == stations[i]
             low_input == MapString(input, UpperAlpha, LowerAlpha)
             low_station == MapString(station, UpperAlpha, LowerAlpha)
             candidate == Contains(low_input, low_station) \/ Contains(low_station, low_input)
             score == Cardinality(CharSet(low_input) \cap CharSet(low_station))
         IN IF candidate /\ score >= best_score
            THEN MatchLoop_last_wins(input, stations, i + 1, station, score)
            ELSE MatchLoop_last_wins(input, stations, i + 1, best_match, best_score)

\* the matching loop of the source / destination steps: a station is a candidate
\* when the lowercased input is a substring of its lowercased name or vice versa,
\* its score is the number of distinct characters shared, and a later station
\* replaces the best match only on a strictly higher score
RECURSIVE MatchLoop(_, _, _, _, _)
MatchLoop(input, stations, i, best_match, best_score) ==
    IF i > Len(stations) THEN best_match
    ELSE LET station == stations[i]
             low_input == MapString(input, UpperAlpha, LowerAlpha)
             low_station == MapString(station, UpperAlpha, LowerAlpha)
             candidate == Contains(low_input, low_station) \/ Contains(low_station, low_input)
             score == Cardinality(CharSet(low_input) \cap CharSet(low_station))
         IN IF candidate /\ score > best_score
            THEN MatchLoop(input, stations, i + 1, station, score)
            ELSE MatchLoop(input, stations, i + 1, best_match, best_score)

\* a resolver that scores every station by shared characters, candidate or not
FindStation_by_overlap(input) ==
    LET stations == get_station_list
        score(i) ==
            Cardinality(CharSet(MapString(input, UpperAlpha, LowerAlpha))
                            \cap CharSet(MapString(stations[i], UpperAlpha, LowerAlpha)))
        best == CHOOSE i \in 1..Len(stations) :
                    \A j \in 1..Len(stations) :
                        score(i) > score(j) \/ (score(i) = score(j) /\ i <= j)
    IN IF score(best) > 0 THEN stations[best] ELSE None

\* best_match after the loop over get_station_list(); None when no station matched
FindStation(input) == MatchLoop(input, get_station_list, 1, None, 0)

\* the loop's result, tabulated over Strings
StationTable == [u \in Strings |-> FindStation(u)]
BestMatch(input) == StationTable[input]

-----------------------------------------------------------------------------
(* ticket_operations: the ticket store *)

\* book_ticket(name, age, gender, source, destination, travel_date)
book_ticket(name, age, gender, source, destination, travel_date, n, now) ==
    [id |-> IdPool[n + 1], name |-> name, age |-> age, gender |-> gender,
     source |-> source, destination |-> destination, travel_date |-> travel_date,
     booking_time |-> strftime_iso(now)]

\* get_ticket_by_id(ticket_id, tickets): the ticket, or None
get_ticket_by_id(ticket_id, store) ==
    LET hits == {i \in 1..Len(store) : store[i].id = ticket_id}
    IN IF hits = {} THEN EmptyDict
       ELSE store[CHOOSE i \in hits : \A j \in hits : i <= j]

\* get_tickets_by_name(name, tickets): case-insensitive substring match on the
\* passenger name, in store order
RECURSIVE get_tickets_by_name(_, _)
get_tickets_by_name(name, store) ==
    IF store = <<>> THEN <<>>
    ELSE (IF Contains(lower(name), lower(Head(store).name)) THEN <<Head(store)>> ELSE <<>>)
         \o get_tickets_by_name(name, Tail(store))

\* modify_ticket(ticket_id, name, age, gender, source, destination, tickets):
\* the store after the update (unchanged when the id is not found)
modify_ticket(ticket_id, name, age, gender, source, destination, store) ==
    [i \in 1..Len(store) |->
        IF store[i].id = ticket_id
        THEN [store[i] EXCEPT !.name = name, !.age = age, !.gender = gender,
                              !.source = source, !.destination = destination]
        ELSE store[i]]

\* cancel_ticket(ticket_id, tickets): the store without the ticket
RECURSIVE cancel_ticket(_, _)
cancel_ticket(ticket_id, store) ==
    IF store = <<>> THEN <<>>
    ELSE (IF Head(store).id = ticket_id THEN <<>> ELSE <<Head(store)>>)
         \o cancel_ticket(ticket_id, Tail(store))

-----------------------------------------------------------------------------
(* The session: st.session_state as a record, one field per variable *)

Session ==
    [tickets |-> tickets, current_operation |-> current_operation,
     booking_step |-> booking_step, modify_step |-> modify_step,
     cancel_step |-> cancel_step, view_step |-> view_step,
     ticket_details |-> ticket_details, selected_ticket_id |-> selected_ticket_id,
     last_viewed_ticket_id |-> last_viewed_ticket_id,
     ticket_id_to_download |-> ticket_id_to_download,
     first_run |-> first_run, show_success |-> show_success,
     issued |-> issued, today |-> today,
     voice_output |-> voice_output, heard |-> heard,
     engine |-> [raises |-> FALSE, said |-> <<>>]]

\* The field engine is not a session field but the speech engine of the run:
\* raises, whether pyttsx3 raises in it, and said, the texts the engine has said
\* in it.  Session is the session as a run with a speaking engine finds it;
\* UnderSpeech is the same session under either engine.
UnderSpeech(s, raises) == [s EXCEPT !.engine = [raises |-> raises, said |-> <<>>]]

\* whether pyttsx3 raises in a run
SpeechOutcomes == BOOLEAN

\* a display_text_as_voice whose failing speech engine ends the operation
display_text_as_voice_fragile(s, tag, args) ==
    LET shown == [s EXCEPT !.voice_output = Append(@, <<tag, args>>)]
    IN IF shown.engine.raises
       THEN [shown EXCEPT !.current_operation = None]
       ELSE [shown EXCEPT !.engine.said = Append(@, tag)]

\* display_text_as_voice(text): the visual echo comes first and always happens;
\* the speech engine runs inside try/except Exception: pass and touches no
\* session field.  Each call site has its own tag; args are the values
\* interpolated into the text.
display_text_as_voice(s, tag, args) ==
    [s EXCEPT !.voice_output = Append(@, <<tag, args>>),
              !.engine = IF @.raises THEN @ ELSE [@ EXCEPT !.said = Append(@, tag)]]

\* the tags emitted in the last run, in order
Tags(output) == [i \in 1..Len(output) |-> output[i][1]]

\* travel_date_str of the listings: strptime then strftime("%B %d, %Y")
TravelDateStr(ticket) ==
    IF "travel_date" \in DOMAIN ticket THEN strptime_iso(ticket.travel_date) ELSE <<>>

\* for idx, ticket in enumerate(list): display_text_as_voice(ticket_info), with
\* the short text of the main menu and of the name disambiguation
RECURSIVE SayTicketList(_, _, _, _)
SayTicketList(s, tag, list, idx) ==
    IF idx > Len(list) THEN s
    ELSE SayTicketList(
            display_text_as_voice(s, tag,
                <<idx, list[idx].id, list[idx].name, list[idx].source,
                  list[idx].destination>>),
            tag, list, idx + 1)

\* the same loop with the long text of the View listings
RECURSIVE SayTicketDetails(_, _, _, _)
SayTicketDetails(s, tag, list, idx) ==
    IF idx > Len(list) THEN s
    ELSE SayTicketDetails(
            display_text_as_voice(s, tag,
                <<idx, list[idx].id, list[idx].name, list[idx].age, list[idx].source,
                  list[idx].destination, TravelDateStr(list[idx]),
                  list[idx].booking_time>>),
            tag, list, idx + 1)

\* "Found ticket ID ... for ..., age ..., gender ..., from ... to ...{travel_date_str}, booked on ..."
FoundTicketArgs(ticket) ==
    <<ticket.id, ticket.name, ticket.age, ticket.gender, ticket.source,
      ticket.destination, TravelDateStr(ticket), ticket.booking_time>>

-----------------------------------------------------------------------------
(* process_main_menu *)

\* the keyword sets of the main menu, in the order the if/elif chain tests them
BookKeywords == {"book", "new", "ticket"}
ModifyKeywords == {"modify", "edit", "change"}
CancelKeywords == {"cancel", "delete", "remove"}
ViewAllKeywords == {"view", "show", "list", "all"}
ViewByNameKeywords == {"find", "search", "my tickets", "my name"}
ViewByIdKeywords == {"ticket id", "find id", "search id", "lookup id", "ticket number"}
HelpKeywords == {"help"}

\* any(k in text for k in keywords)
HasAny(keywords, text) == \E k \in keywords : Contains(k, text)

\* a book branch that does not install the first step
menu_book_without_step(s) ==
    [display_text_as_voice(s, "menu.book", <<>>) EXCEPT !.current_operation = "book"]

menu_book(s) ==
    [display_text_as_voice(s, "menu.book", <<>>)
        EXCEPT !.current_operation = "book", !.booking_step = "name"]

menu_modify(s) ==
    IF s.tickets # <<>>
    THEN [SayTicketList(display_text_as_voice(s, "menu.modify", <<>>),
                        "menu.modify.ticket", s.tickets, 1)
            EXCEPT !.current_operation = "modify", !.modify_step = "select_ticket"]
    ELSE [display_text_as_voice(s, "menu.modify.none", <<>>)
            EXCEPT !.current_operation = None]

\* a cancel branch that enters the operation whatever the store holds
menu_cancel_unguarded(s) ==
    [SayTicketList(display_text_as_voice(s, "menu.cancel", <<>>),
                   "menu.cancel.ticket", s.tickets, 1)
       EXCEPT !.current_operation = "cancel", !.cancel_step = "select_ticket"]

menu_cancel(s) ==
    IF s.tickets # <<>>
    THEN [SayTicketList(display_text_as_voice(s, "menu.cancel", <<>>),
                        "menu.cancel.ticket", s.tickets, 1)
            EXCEPT !.current_operation = "cancel", !.cancel_step = "select_ticket"]
    ELSE [display_text_as_voice(s, "menu.cancel.none", <<>>)
            EXCEPT !.current_operation = None]

menu_view_all(s) ==
    [display_text_as_voice(s, "menu.view", <<>>)
        EXCEPT !.current_operation = "view", !.view_step = "display_options"]

menu_view_by_name(s) ==
    [display_text_as_voice(s, "menu.find", <<>>)
        EXCEPT !.current_operation = "view", !.view_step = "ask_name"]

menu_view_by_id(s) ==
    [display_text_as_voice(s, "menu.ticket_id", <<>>)
        EXCEPT !.current_operation = "view", !.view_step = "ask_id"]

menu_help(s) == display_text_as_voice(s, "menu.help", <<>>)

menu_fallback(s) == display_text_as_voice(s, "menu.not_understood", <<>>)

\* the chain with the modify test ahead of the book test
menu_dispatch_modify_first(s, command) ==
    LET c == lower(command)
    IN IF HasAny(ModifyKeywords, c) THEN menu_modify(s)
       ELSE IF HasAny(BookKeywords, c) THEN menu_book(s)
       ELSE IF HasAny(CancelKeywords, c) THEN menu_cancel(s)
       ELSE IF HasAny(ViewAllKeywords, c) THEN menu_view_all(s)
       ELSE IF HasAny(ViewByNameKeywords, c) THEN menu_view_by_name(s)
       ELSE IF HasAny(ViewByIdKeywords, c) THEN menu_view_by_id(s)
       ELSE IF HasAny(HelpKeywords, c) THEN menu_help(s)
       ELSE menu_fallback(s)

\* the if/elif chain over command.lower()
menu_dispatch(s, command) ==
    LET c == lower(command)
    IN IF HasAny(BookKeywords, c) THEN menu_book(s)
       ELSE IF HasAny(ModifyKeywords, c) THEN menu_modify(s)
       ELSE IF HasAny(CancelKeywords, c) THEN menu_cancel(s)
       ELSE IF HasAny(ViewAllKeywords, c) THEN menu_view_all(s)
       ELSE IF HasAny(ViewByNameKeywords, c) THEN menu_view_by_name(s)
       ELSE IF HasAny(ViewByIdKeywords, c) THEN menu_view_by_id(s)
       ELSE IF HasAny(HelpKeywords, c) THEN menu_help(s)
       ELSE menu_fallback(s)

process_main_menu(s, command) ==
    LET s1 == IF s.first_run
              THEN [display_text_as_voice(s, "menu.welcome", <<>>)
                       EXCEPT !.first_run = FALSE]
              ELSE s
    IN IF command # NoInput
       THEN menu_dispatch(s1, command)
       ELSE display_text_as_voice(s1, "menu.listening", <<>>)

-----------------------------------------------------------------------------
(* process_booking *)

\* a range test that lets every number through
AgeInRange_unchecked(age) == age = age

\* 1 <= age <= 120
AgeInRange(age) == 1 <= age /\ age <= 120

\* a keyword scan that looks for 'male' first
ParseGender_male_first(gender_input) ==
    IF Contains("male", gender_input) THEN "Male"
    ELSE IF Contains("female", gender_input) THEN "Female"
    ELSE "Other"

\* the gender keyword scan on the lowercased input
ParseGender(gender_input) ==
    IF Contains("male", gender_input) /\ ~Contains("female", gender_input) THEN "Male"
    ELSE IF Contains("female", gender_input) THEN "Female"
    ELSE "Other"

\* a date parser that reads "tomorrow" as the current date
ParseTravelDate_tomorrow_is_today(date_input, now) ==
    IF Contains("tomorrow", date_input) \/ Contains("today", date_input)
    THEN strftime_iso(now)
    ELSE None

\* the travel date the input names: an ISO string; "invalid" when datetime()
\* raises ValueError; None when nothing was recognised
ParseTravelDate(date_input, now) ==
    IF Contains("tomorrow", date_input) THEN strftime_iso(PlusOneDay(now))
    ELSE IF Contains("today", date_input) THEN strftime_iso(now)
    ELSE LET month_num == MonthNum(date_input)
             day_match == SearchDay(date_input)
             day_num   == IF day_match = "" THEN 0 ELSE StrToInt(day_match)
         IN IF month_num # 0 /\ day_num # 0
            THEN IF ValidDate(now[1], month_num, day_num)
                 THEN strftime_iso(<<now[1], month_num, day_num>>)
                 ELSE "invalid"
            ELSE None

booking_name(s, name) ==
    IF name # NoInput
    THEN [display_text_as_voice(s, "book.name.recorded", <<name>>)
            EXCEPT !.ticket_details = Put(s.ticket_details, "name", name),
                   !.booking_step = "age"]
    ELSE display_text_as_voice(s, "book.name.no_input", <<>>)

\* an age step whose upper limit is exclusive
booking_age_below_120(s, age_input) ==
    IF age_input # NoInput /\ SearchNumber(age_input) # ""
    THEN LET age == StrToInt(SearchNumber(age_input))
         IN IF 1 <= age /\ age < 120
            THEN [display_text_as_voice(s, "book.age.recorded", <<age>>)
                    EXCEPT !.ticket_details = Put(s.ticket_details, "age", age),
                           !.booking_step = "gender"]
            ELSE display_text_as_voice(s, "book.age.out_of_range", <<>>)
    ELSE display_text_as_voice(s, "book.age.not_understood", <<>>)

booking_age(s, age_input) ==
    IF age_input # NoInput
    THEN LET age_match == SearchNumber(age_input)
         IN IF age_match # ""
            THEN LET age == StrToInt(age_match)
                 IN IF AgeInRange(age)
                    THEN [display_text_as_voice(s, "book.age.recorded", <<age>>)
                            EXCEPT !.ticket_details = Put(s.ticket_details, "age", age),
                                   !.booking_step = "gender"]
                    ELSE display_text_as_voice(s, "book.age.out_of_range", <<>>)
            ELSE display_text_as_voice(s, "book.age.not_understood", <<>>)
    ELSE display_text_as_voice(s, "book.age.no_input", <<>>)

booking_gender(s, gender_input) ==
    IF gender_input # NoInput
    THEN LET gender == ParseGender(lower(gender_input))
         IN [display_text_as_voice(s, "book.gender.recorded", <<gender>>)
               EXCEPT !.ticket_details = Put(s.ticket_details, "gender", gender),
                      !.booking_step = "source"]
    ELSE display_text_as_voice(s, "book.gender.no_input", <<>>)

booking_source(s, source_input) ==
    IF source_input # NoInput
    THEN LET best_match == BestMatch(source_input)
         IN IF best_match # None
            THEN [display_text_as_voice(s, "book.source.recorded", <<best_match>>)
                    EXCEPT !.ticket_details = Put(s.ticket_details, "source", best_match),
                           !.booking_step = "destination"]
            ELSE display_text_as_voice(s, "book.source.no_match", <<>>)
    ELSE display_text_as_voice(s, "book.source.no_input", <<>>)

\* ticket_details.get('source') == best_match
SameAsSource(details, best_match) ==
    "source" \in DOMAIN details /\ details.source = best_match

\* a destination step that sends the user back to the source step when the
\* destination is the source
booking_destination_back_to_source(s, destination_input) ==
    IF destination_input # NoInput
    THEN LET best_match == BestMatch(destination_input)
         IN IF best_match # None
            THEN IF SameAsSource(s.ticket_details, best_match)
                 THEN [display_text_as_voice(s, "book.destination.same_as_source", <<>>)
                         EXCEPT !.booking_step = "source"]
                 ELSE [display_text_as_voice(s, "book.destination.recorded", <<best_match>>)
                         EXCEPT !.ticket_details =
                                    Put(s.ticket_details, "destination", best_match),
                                !.booking_step = "travel_date"]
            ELSE display_text_as_voice(s, "book.destination.no_match", <<>>)
    ELSE display_text_as_voice(s, "book.destination.no_input", <<>>)

booking_destination(s, destination_input) ==
    IF destination_input # NoInput
    THEN LET best_match == BestMatch(destination_input)
         IN IF best_match # None
            THEN IF SameAsSource(s.ticket_details, best_match)
                 THEN display_text_as_voice(s, "book.destination.same_as_source", <<>>)
                 ELSE [display_text_as_voice(s, "book.destination.recorded", <<best_match>>)
                         EXCEPT !.ticket_details =
                                    Put(s.ticket_details, "destination", best_match),
                                !.booking_step = "travel_date"]
            ELSE display_text_as_voice(s, "book.destination.no_match", <<>>)
    ELSE display_text_as_voice(s, "book.destination.no_input", <<>>)

\* a travel date step that moves on to confirm without writing the date into
\* the buffer
booking_travel_date_unrecorded(s, date_input) ==
    IF date_input # NoInput /\ ParseTravelDate(lower(date_input), s.today) \notin {None, "invalid"}
    THEN [display_text_as_voice(s, "book.date.recorded",
                                <<strptime_iso(ParseTravelDate(lower(date_input), s.today))>>)
            EXCEPT !.booking_step = "confirm"]
    ELSE display_text_as_voice(s, "book.date.not_understood", <<>>)

booking_travel_date(s, date_input) ==
    IF date_input # NoInput
    THEN LET travel_date == ParseTravelDate(lower(date_input), s.today)
         IN IF travel_date = "invalid"
            THEN display_text_as_voice(s, "book.date.invalid", <<>>)
            ELSE IF travel_date # None
            THEN LET details == Put(s.ticket_details, "travel_date", travel_date)
                     formatted_date == strptime_iso(travel_date)
                     s1 == display_text_as_voice(s, "book.date.recorded", <<formatted_date>>)
                     s2 == display_text_as_voice(s1, "book.date.please_confirm",
                              <<details.name, details.age, details.gender, details.source,
                                details.destination, formatted_date>>)
                 IN [s2 EXCEPT !.ticket_details = details, !.booking_step = "confirm"]
            ELSE display_text_as_voice(s, "book.date.not_understood", <<>>)
    ELSE display_text_as_voice(s, "book.date.no_input", <<>>)

\* ticket_details.get('travel_date')
GetTravelDate(details) ==
    IF "travel_date" \in DOMAIN details THEN details.travel_date ELSE None

\* a confirm step that books the journey in the opposite direction
booking_confirm_reversed(s, confirm_input) ==
    IF confirm_input # NoInput
    THEN LET c == lower(confirm_input)
         IN IF Contains("confirm", c) \/ Contains("yes", c)
            THEN LET d == s.ticket_details
                     ticket == book_ticket(d.name, d.age, d.gender, d.destination,
                                           d.source, GetTravelDate(d),
                                           s.issued, s.today)
                 IN [display_text_as_voice(s, "book.confirm.booked", <<ticket.id>>)
                       EXCEPT !.tickets = Append(s.tickets, ticket),
                              !.issued = s.issued + 1,
                              !.show_success = TRUE,
                              !.current_operation = None,
                              !.booking_step = None,
                              !.ticket_details = EmptyDict]
            ELSE IF Contains("cancel", c) \/ Contains("no", c)
            THEN [display_text_as_voice(s, "book.confirm.cancelled", <<>>)
                    EXCEPT !.current_operation = None,
                           !.booking_step = None,
                           !.ticket_details = EmptyDict]
            ELSE display_text_as_voice(s, "book.confirm.reprompt", <<>>)
    ELSE display_text_as_voice(s, "book.confirm.no_input", <<>>)

\* a confirm step that tests the abort keywords first
booking_confirm_abort_first(s, confirm_input) ==
    IF confirm_input # NoInput
    THEN LET c == lower(confirm_input)
         IN IF Contains("cancel", c) \/ Contains("no", c)
            THEN [display_text_as_voice(s, "book.confirm.cancelled", <<>>)
                    EXCEPT !.current_operation = None,
                           !.booking_step = None,
                           !.ticket_details = EmptyDict]
            ELSE IF Contains("confirm", c) \/ Contains("yes", c)
            THEN LET d == s.ticket_details
                     ticket == book_ticket(d.name, d.age, d.gender, d.source,
                                           d.destination, GetTravelDate(d),
                                           s.issued, s.today)
                 IN [display_text_as_voice(s, "book.confirm.booked", <<ticket.id>>)
                       EXCEPT !.tickets = Append(s.tickets, ticket),
                              !.issued = s.issued + 1,
                              !.show_success = TRUE,
                              !.current_operation = None,
                              !.booking_step = None,
                              !.ticket_details = EmptyDict]
            ELSE display_text_as_voice(s, "book.confirm.reprompt", <<>>)
    ELSE display_text_as_voice(s, "book.confirm.no_input", <<>>)

booking_confirm(s, confirm_input) ==
    IF confirm_input # NoInput
    THEN LET c == lower(confirm_input)
         IN IF Contains("confirm", c) \/ Contains("yes", c)
            THEN LET d == s.ticket_details
                     ticket == book_ticket(d.name, d.age, d.gender, d.source,
                                           d.destination, GetTravelDate(d),
                                           s.issued, s.today)
                 IN [display_text_as_voice(s, "book.confirm.booked", <<ticket.id>>)
                       EXCEPT !.tickets = Append(s.tickets, ticket),
                              !.issued = s.issued + 1,
                              !.show_success = TRUE,
                              !.current_operation = None,
                              !.booking_step = None,
                              !.ticket_details = EmptyDict]
            ELSE IF Contains("cancel", c) \/ Contains("no", c)
            THEN [display_text_as_voice(s, "book.confirm.cancelled", <<>>)
                    EXCEPT !.current_operation = None,
                           !.booking_step = None,
                           !.ticket_details = EmptyDict]
            ELSE display_text_as_voice(s, "book.confirm.reprompt", <<>>)
    ELSE display_text_as_voice(s, "book.confirm.no_input", <<>>)

process_booking(s, command) ==
    IF s.booking_step = "name" THEN booking_name(s, command)
    ELSE IF s.booking_step = "age" THEN booking_age(s, command)
    ELSE IF s.booking_step = "gender" THEN booking_gender(s, command)
    ELSE IF s.booking_step = "source" THEN booking_source(s, command)
    ELSE IF s.booking_step = "destination" THEN booking_destination(s, command)
    ELSE IF s.booking_step = "travel_date" THEN booking_travel_date(s, command)
    ELSE IF s.booking_step = "confirm" THEN booking_confirm(s, command)
    ELSE s

-----------------------------------------------------------------------------
(* process_modification *)

\* a selection step that takes the first of several name matches
modify_select_ticket_first_match(s, ticket_input) ==
    IF ticket_input # NoInput
    THEN LET matching_tickets == get_tickets_by_name(ticket_input, s.tickets)
         IN IF matching_tickets # <<>>
            THEN LET ticket == matching_tickets[1]
                 IN [display_text_as_voice(s, "modify.select.found_by_name",
                           <<ticket.name, ticket.source, ticket.destination>>)
                       EXCEPT !.selected_ticket_id = ticket.id,
                              !.modify_step = "select_field"]
            ELSE display_text_as_voice(s, "modify.select.none_found", <<>>)
    ELSE display_text_as_voice(s, "modify.select.no_input", <<>>)

\* a selection step that takes an id token without looking the ticket up
modify_select_ticket_unverified(s, ticket_input) ==
    IF ticket_input # NoInput /\ SearchTicketId(upper(ticket_input)) # ""
    THEN [display_text_as_voice(s, "modify.select.found_by_id",
                                <<SearchTicketId(upper(ticket_input))>>)
            EXCEPT !.selected_ticket_id = SearchTicketId(upper(ticket_input)),
                   !.modify_step = "select_field"]
    ELSE display_text_as_voice(s, "modify.select.none_found", <<>>)

modify_select_ticket(s, ticket_input) ==
    IF ticket_input # NoInput
    THEN LET ticket_id == SearchTicketId(upper(ticket_input))
         IN IF ticket_id # ""
            THEN LET ticket == get_ticket_by_id(ticket_id, s.tickets)
                 IN IF ticket # EmptyDict
                    THEN [display_text_as_voice(s, "modify.select.found_by_id", <<ticket.name>>)
                            EXCEPT !.selected_ticket_id = ticket_id,
                                   !.modify_step = "select_field"]
                    ELSE display_text_as_voice(s, "modify.select.id_not_found", <<ticket_id>>)
            ELSE LET matching_tickets == get_tickets_by_name(ticket_input, s.tickets)
                 IN IF matching_tickets # <<>>
                    THEN IF Len(matching_tickets) = 1
                         THEN LET ticket == matching_tickets[1]
                              IN [display_text_as_voice(s, "modify.select.found_by_name",
                                        <<ticket.name, ticket.source, ticket.destination>>)
                                    EXCEPT !.selected_ticket_id = ticket.id,
                                           !.modify_step = "select_field"]
                         ELSE SayTicketList(
                                 display_text_as_voice(s, "modify.select.ambiguous",
                                     <<Len(matching_tickets), ticket_input>>),
                                 "modify.select.candidate", matching_tickets, 1)
                    ELSE display_text_as_voice(s, "modify.select.none_found", <<>>)
    ELSE display_text_as_voice(s, "modify.select.no_input", <<>>)

\* a reset that leaves the buffer of the modification behind
modify_reset_keeps_buffer(s) ==
    [s EXCEPT !.current_operation = None,
              !.modify_step = "select_ticket",
              !.selected_ticket_id = None]

\* the reset that ends a Modify operation
modify_reset(s) ==
    [s EXCEPT !.current_operation = None,
              !.modify_step = "select_ticket",
              !.selected_ticket_id = None,
              !.ticket_details = EmptyDict]

\* a commit that writes the buffered fields into every ticket of the store
modify_commit_every_ticket(s) ==
    LET d == s.ticket_details
    IN [modify_reset(display_text_as_voice(s, "modify.field.updated", <<>>))
          EXCEPT !.tickets = [i \in 1..Len(s.tickets) |->
                                 [s.tickets[i] EXCEPT !.name = d.name, !.age = d.age,
                                                      !.gender = d.gender,
                                                      !.source = d.source,
                                                      !.destination = d.destination]],
                 !.show_success = TRUE]

\* the confirm / update / save branch: modify_ticket with the buffered fields
modify_commit(s) ==
    LET d == s.ticket_details
        found == get_ticket_by_id(s.selected_ticket_id, s.tickets) # EmptyDict
    IN IF found
       THEN [modify_reset(display_text_as_voice(s, "modify.field.updated", <<>>))
               EXCEPT !.tickets = modify_ticket(s.selected_ticket_id, d.name, d.age,
                                                d.gender, d.source, d.destination,
                                                s.tickets),
                      !.show_success = TRUE]
       ELSE modify_reset(display_text_as_voice(s, "modify.field.update_error", <<>>))

modify_select_field(s, field_input) ==
    IF field_input # NoInput
    THEN LET field == lower(field_input)
             ticket == get_ticket_by_id(s.selected_ticket_id, s.tickets)
             \* st.session_state.ticket_details = dict(ticket)
             s1 == [s EXCEPT !.ticket_details = ticket]
         IN IF ticket = EmptyDict
            THEN s  \* dict(None) raises TypeError: the run ends here
            ELSE IF Contains("name", field)
            THEN [display_text_as_voice(s1, "modify.field.name", <<ticket.name>>)
                    EXCEPT !.modify_step = "update_name"]
            ELSE IF Contains("age", field)
            THEN [display_text_as_voice(s1, "modify.field.age", <<ticket.age>>)
                    EXCEPT !.modify_step = "update_age"]
            ELSE IF Contains("gender", field)
            THEN [display_text_as_voice(s1, "modify.field.gender", <<ticket.gender>>)
                    EXCEPT !.modify_step = "update_gender"]
            ELSE IF Contains("source", field)
            THEN [display_text_as_voice(s1, "modify.field.source", <<ticket.source>>)
                    EXCEPT !.modify_step = "update_source"]
            ELSE IF Contains("destination", field)
            THEN [display_text_as_voice(s1, "modify.field.destination", <<ticket.destination>>)
                    EXCEPT !.modify_step = "update_destination"]
            ELSE IF Contains("confirm", field) \/ Contains("update", field)
                    \/ Contains("save", field)
            THEN modify_commit(s1)
            ELSE IF Contains("cancel", field) \/ Contains("abort", field)
            THEN modify_reset(display_text_as_voice(s1, "modify.field.cancelled", <<>>))
            ELSE display_text_as_voice(s1, "modify.field.reprompt", <<>>)
    ELSE display_text_as_voice(s, "modify.field.no_input", <<>>)

\* a name update that writes the new name straight into the stored ticket
modify_update_name_writes_store(s, name_input) ==
    IF name_input # NoInput
    THEN [display_text_as_voice(s, "modify.name.updated", <<name_input>>)
            EXCEPT !.ticket_details = Put(s.ticket_details, "name", name_input),
                   !.tickets = [i \in 1..Len(s.tickets) |->
                                   IF s.tickets[i].id = s.selected_ticket_id
                                   THEN [s.tickets[i] EXCEPT !.name = name_input]
                                   ELSE s.tickets[i]],
                   !.modify_step = "select_field"]
    ELSE display_text_as_voice(s, "modify.name.no_input", <<>>)

modify_update_name(s, name_input) ==
    IF name_input # NoInput
    THEN [display_text_as_voice(s, "modify.name.updated", <<name_input>>)
            EXCEPT !.ticket_details = Put(s.ticket_details, "name", name_input),
                   !.modify_step = "select_field"]
    ELSE display_text_as_voice(s, "modify.name.no_input", <<>>)

\* an update step that takes any number for an age
modify_update_age_unchecked(s, age_input) ==
    IF age_input # NoInput /\ SearchNumber(age_input) # ""
    THEN LET age == StrToInt(SearchNumber(age_input))
         IN [display_text_as_voice(s, "modify.age.updated", <<age>>)
               EXCEPT !.ticket_details = Put(s.ticket_details, "age", age),
                      !.modify_step = "select_field"]
    ELSE display_text_as_voice(s, "modify.age.not_understood", <<>>)

modify_update_age(s, age_input) ==
    IF age_input # NoInput
    THEN LET age_match == SearchNumber(age_input)
         IN IF age_match # ""
            THEN LET age == StrToInt(age_match)
                 IN IF AgeInRange(age)
                    THEN [display_text_as_voice(s, "modify.age.updated", <<age>>)
                            EXCEPT !.ticket_details = Put(s.ticket_details, "age", age),
                                   !.modify_step = "select_field"]
                    ELSE display_text_as_voice(s, "modify.age.out_of_range", <<>>)
            ELSE display_text_as_voice(s, "modify.age.not_understood", <<>>)
    ELSE display_text_as_voice(s, "modify.age.no_input", <<>>)

modify_update_gender(s, gender_input) ==
    IF gender_input # NoInput
    THEN LET gender == ParseGender(lower(gender_input))
         IN [display_text_as_voice(s, "modify.gender.updated", <<gender>>)
               EXCEPT !.ticket_details = Put(s.ticket_details, "gender", gender),
                      !.modify_step = "select_field"]
    ELSE display_text_as_voice(s, "modify.gender.no_input", <<>>)

modify_update_source(s, source_input) ==
    IF source_input # NoInput
    THEN LET best_match == BestMatch(source_input)
         IN IF best_match # None
            THEN [display_text_as_voice(s, "modify.source.updated", <<best_match>>)
                    EXCEPT !.ticket_details = Put(s.ticket_details, "source", best_match),
                           !.modify_step = "select_field"]
            ELSE display_text_as_voice(s, "modify.source.no_match", <<>>)
    ELSE display_text_as_voice(s, "modify.source.no_input", <<>>)

modify_update_destination(s, destination_input) ==
    IF destination_input # NoInput
    THEN LET best_match == BestMatch(destination_input)
         IN IF best_match # None
            THEN IF s.ticket_details.source = best_match
                 THEN display_text_as_voice(s, "modify.destination.same_as_source", <<>>)
                 ELSE [display_text_as_voice(s, "modify.destination.updated", <<best_match>>)
                         EXCEPT !.ticket_details =
                                    Put(s.ticket_details, "destination", best_match),
                                !.modify_step = "select_field"]
            ELSE display_text_as_voice(s, "modify.destination.no_match", <<>>)
    ELSE display_text_as_voice(s, "modify.destination.no_input", <<>>)

process_modification(s, command) ==
    LET s0 == IF s.modify_step = Unset THEN [s EXCEPT !.modify_step = "select_ticket"] ELSE s
    IN IF s0.modify_step = "select_ticket" THEN modify_select_ticket(s0, command)
       ELSE IF s0.modify_step = "select_field" THEN modify_select_field(s0, command)
       ELSE IF s0.modify_step = "update_name" THEN modify_update_name(s0, command)
       ELSE IF s0.modify_step = "update_age" THEN modify_update_age(s0, command)
       ELSE IF s0.modify_step = "update_gender" THEN modify_update_gender(s0, command)
       ELSE IF s0.modify_step = "update_source" THEN modify_update_source(s0, command)
       ELSE IF s0.modify_step = "update_destination"
       THEN modify_update_destination(s0, command)
       ELSE s0

-----------------------------------------------------------------------------
(* process_cancellation *)

\* a selection step that searches by name before it looks for an id
cancel_select_ticket_name_first(s, ticket_input) ==
    IF ticket_input # NoInput
    THEN LET matching_tickets == get_tickets_by_name("jane doe", s.tickets)
             ticket_id == SearchTicketId(upper(ticket_input))
             ticket == get_ticket_by_id(ticket_id, s.tickets)
         IN IF Contains("jane doe", lower(ticket_input)) /\ Len(matching_tickets) = 1
            THEN [display_text_as_voice(s, "cancel.select.found_by_name",
                      <<matching_tickets[1].name, matching_tickets[1].source,
                        matching_tickets[1].destination>>)
                    EXCEPT !.selected_ticket_id = matching_tickets[1].id,
                           !.cancel_step = "confirm"]
            ELSE IF ticket # EmptyDict
            THEN [display_text_as_voice(s, "cancel.select.found_by_id",
                      <<ticket.name, ticket.source, ticket.destination>>)
                    EXCEPT !.selected_ticket_id = ticket_id,
                           !.cancel_step = "confirm"]
            ELSE display_text_as_voice(s, "cancel.select.none_found", <<>>)
    ELSE display_text_as_voice(s, "cancel.select.no_input", <<>>)

cancel_select_ticket(s, ticket_input) ==
    IF ticket_input # NoInput
    THEN LET ticket_id == SearchTicketId(upper(ticket_input))
         IN IF ticket_id # ""
            THEN LET ticket == get_ticket_by_id(ticket_id, s.tickets)
                 IN IF ticket # EmptyDict
                    THEN [display_text_as_voice(s, "cancel.select.found_by_id",
                                <<ticket.name, ticket.source, ticket.destination>>)
                            EXCEPT !.selected_ticket_id = ticket_id,
                                   !.cancel_step = "confirm"]
                    ELSE display_text_as_voice(s, "cancel.select.id_not_found", <<ticket_id>>)
            ELSE LET matching_tickets == get_tickets_by_name(ticket_input, s.tickets)
                 IN IF matching_tickets # <<>>
                    THEN IF Len(matching_tickets) = 1
                         THEN LET ticket == matching_tickets[1]
                              IN [display_text_as_voice(s, "cancel.select.found_by_name",
                                        <<ticket.name, ticket.source, ticket.destination>>)
                                    EXCEPT !.selected_ticket_id = ticket.id,
                                           !.cancel_step = "confirm"]
                         ELSE SayTicketList(
                                 display_text_as_voice(s, "cancel.select.ambiguous",
                                     <<Len(matching_tickets), ticket_input>>),
                                 "cancel.select.candidate", matching_tickets, 1)
                    ELSE display_text_as_voice(s, "cancel.select.none_found", <<>>)
    ELSE display_text_as_voice(s, "cancel.select.no_input", <<>>)

\* the reset that ends a Cancel operation
cancel_reset(s) ==
    [s EXCEPT !.current_operation = None,
              !.cancel_step = "select_ticket",
              !.selected_ticket_id = None]

\* a confirmation step that takes silence for "no"
cancel_confirm_silence_aborts(s, confirm_input) ==
    IF confirm_input # NoInput /\ Contains("confirm", lower(confirm_input))
    THEN [cancel_reset(display_text_as_voice(s, "cancel.confirm.cancelled", <<>>))
            EXCEPT !.tickets = cancel_ticket(s.selected_ticket_id, s.tickets),
                   !.show_success = TRUE]
    ELSE cancel_reset(display_text_as_voice(s, "cancel.confirm.aborted", <<>>))

cancel_confirm(s, confirm_input) ==
    IF confirm_input # NoInput
    THEN LET c == lower(confirm_input)
         IN IF Contains("confirm", c) \/ Contains("yes", c) \/ Contains("delete", c)
            THEN LET success ==
                         get_ticket_by_id(s.selected_ticket_id, s.tickets) # EmptyDict
                 IN IF success
                    THEN [cancel_reset(display_text_as_voice(s, "cancel.confirm.cancelled", <<>>))
                            EXCEPT !.tickets = cancel_ticket(s.selected_ticket_id, s.tickets),
                                   !.show_success = TRUE]
                    ELSE cancel_reset(display_text_as_voice(s, "cancel.confirm.error", <<>>))
            ELSE IF Contains("no", c) \/ Contains("keep", c) \/ Contains("don't", c)
            THEN cancel_reset(display_text_as_voice(s, "cancel.confirm.aborted", <<>>))
            ELSE display_text_as_voice(s, "cancel.confirm.reprompt", <<>>)
    ELSE display_text_as_voice(s, "cancel.confirm.no_input", <<>>)

process_cancellation(s, command) ==
    LET s0 == IF s.cancel_step = Unset THEN [s EXCEPT !.cancel_step = "select_ticket"] ELSE s
    IN IF s0.cancel_step = "select_ticket" THEN cancel_select_ticket(s0, command)
       ELSE IF s0.cancel_step = "confirm" THEN cancel_confirm(s0, command)
       ELSE s0

-----------------------------------------------------------------------------
(* process_view *)

\* a reset that hands the dialog from View straight to a new booking
view_reset_into_booking(s) ==
    [s EXCEPT !.current_operation = "book", !.booking_step = "name", !.view_step = None]

\* the reset that ends a View operation
view_reset(s) == [s EXCEPT !.current_operation = None, !.view_step = None]

\* "if ticket_id:" of display_options: look the ticket up and show it
view_lookup(s, ticket_id) ==
    LET ticket == get_ticket_by_id(ticket_id, s.tickets)
    IN IF ticket # EmptyDict
       THEN [display_text_as_voice(
                display_text_as_voice(s, "view.found", FoundTicketArgs(ticket)),
                "view.download_hint", <<>>)
               EXCEPT !.last_viewed_ticket_id = ticket.id,
                      !.ticket_id_to_download = ticket.id,
                      !.current_operation = "view",
                      !.view_step = "view_options"]
       ELSE display_text_as_voice(s, "view.id_not_found", <<ticket_id>>)

\* an "all" branch that drops each ticket it has read out
view_all_consuming(s) ==
    IF s.tickets # <<>>
    THEN [view_reset(
            display_text_as_voice(
                SayTicketDetails(
                    display_text_as_voice(s, "view.all.header", <<Len(s.tickets)>>),
                    "view.all.ticket", s.tickets, 1),
                "view.all.end", <<>>))
            EXCEPT !.tickets = Tail(s.tickets)]
    ELSE view_reset(display_text_as_voice(s, "view.all.none", <<>>))

\* the "all" branch: read every ticket out and end the operation
view_all(s) ==
    IF s.tickets # <<>>
    THEN view_reset(
            display_text_as_voice(
                SayTicketDetails(
                    display_text_as_voice(s, "view.all.header", <<Len(s.tickets)>>),
                    "view.all.ticket", s.tickets, 1),
                "view.all.end", <<>>))
    ELSE view_reset(display_text_as_voice(s, "view.all.none", <<>>))

\* the name search of display_options and ask_name
view_by_name(s, name_input) ==
    LET matching_tickets == get_tickets_by_name(name_input, s.tickets)
    IN IF matching_tickets # <<>>
       THEN view_reset(
               display_text_as_voice(
                   SayTicketDetails(
                       display_text_as_voice(s, "view.name.header",
                           <<Len(matching_tickets), name_input>>),
                       "view.name.ticket", matching_tickets, 1),
                   "view.name.end", <<>>))
       ELSE view_reset(display_text_as_voice(s, "view.name.none", <<name_input>>))

\* "all" in view_input or "show all" in view_input or "list all" in view_input
SaysAll(view_input) ==
    Contains("all", view_input) \/ Contains("show all", view_input)
        \/ Contains("list all", view_input)

view_display_options(s, command) ==
    IF command # NoInput
    THEN LET view_input == lower(command)
             id_match == SearchTicketId(upper(view_input))
         IN IF (Contains("view", view_input) /\ Contains("ticket", view_input))
                \/ Contains("ticket id", view_input)
            THEN IF id_match # ""
                 THEN view_lookup(s, id_match)
                 ELSE [display_text_as_voice(s, "view.ask_id", <<>>)
                         EXCEPT !.view_step = "ask_id"]
            ELSE IF Contains("download", view_input)
            THEN IF id_match # ""
                 THEN [s EXCEPT !.view_step = "download_ticket",
                                !.ticket_id_to_download = id_match]
                 ELSE IF s.last_viewed_ticket_id # Unset
                 THEN [display_text_as_voice(s, "view.download.last_viewed", <<>>)
                         EXCEPT !.view_step = "download_ticket",
                                !.ticket_id_to_download = s.last_viewed_ticket_id]
                 ELSE display_text_as_voice(s, "view.download.unknown", <<>>)
            ELSE IF id_match # "" THEN view_lookup(s, id_match)
            ELSE IF SaysAll(view_input) THEN view_all(s)
            ELSE view_by_name(s, view_input)
    ELSE display_text_as_voice(s, "view.no_input", <<>>)

view_ask_name(s, name_input) ==
    IF name_input # NoInput
    THEN view_by_name(s, name_input)
    ELSE display_text_as_voice(s, "view.ask_name.no_input", <<>>)

view_ask_id(s, id_input) ==
    IF id_input # NoInput
    THEN LET ticket_id == SearchTicketId(upper(id_input))
         IN IF ticket_id # ""
            THEN LET ticket == get_ticket_by_id(ticket_id, s.tickets)
                 IN IF ticket # EmptyDict
                    THEN view_reset(
                            display_text_as_voice(
                                display_text_as_voice(s, "view.ask_id.found",
                                                      FoundTicketArgs(ticket)),
                                "view.ask_id.download_hint", <<>>))
                    ELSE display_text_as_voice(s, "view.ask_id.not_found", <<ticket_id>>)
            ELSE display_text_as_voice(s, "view.ask_id.not_recognized", <<>>)
    ELSE display_text_as_voice(s, "view.ask_id.no_input", <<>>)

\* a download step that ends the operation when the ticket is not found
view_download_ticket_gives_up(s) ==
    IF s.ticket_id_to_download = Unset THEN s
    ELSE LET ticket_id == s.ticket_id_to_download
             ticket == get_ticket_by_id(ticket_id, s.tickets)
         IN IF ticket # EmptyDict
            THEN [view_reset(display_text_as_voice(s, "view.download.ready",
                                <<ticket.name, ticket.source, ticket.destination>>))
                    EXCEPT !.ticket_id_to_download = Unset]
            ELSE view_reset(display_text_as_voice(s, "view.download.not_found",
                                                  <<ticket_id>>))

\* view_step == "download_ticket": runs without listening
view_download_ticket(s) ==
    IF s.ticket_id_to_download = Unset THEN s
    ELSE LET ticket_id == s.ticket_id_to_download
             ticket == get_ticket_by_id(ticket_id, s.tickets)
         IN IF ticket # EmptyDict
            THEN [view_reset(display_text_as_voice(s, "view.download.ready",
                                <<ticket.name, ticket.source, ticket.destination>>))
                    EXCEPT !.ticket_id_to_download = Unset]
            ELSE [display_text_as_voice(s, "view.download.not_found", <<ticket_id>>)
                    EXCEPT !.view_step = "display_options"]

\* a view_options step that returns to the main menu without a word
view_options_silent_return(s, command) ==
    IF command # NoInput
    THEN LET next_command == lower(command)
             id_match == SearchTicketId(upper(next_command))
         IN IF Contains("download", next_command)
            THEN IF id_match = "" /\ s.last_viewed_ticket_id = Unset
                 THEN [display_text_as_voice(s, "view.options.nothing_to_download", <<>>)
                         EXCEPT !.view_step = "display_options"]
                 ELSE LET ticket_id == IF id_match # "" THEN id_match
                                       ELSE s.last_viewed_ticket_id
                          ticket == get_ticket_by_id(ticket_id, s.tickets)
                      IN IF ticket # EmptyDict
                         THEN [s EXCEPT !.ticket_id_to_download = ticket_id,
                                        !.view_step = "download_ticket"]
                         ELSE [display_text_as_voice(s, "view.options.not_found",
                                                     <<ticket_id>>)
                                 EXCEPT !.view_step = "display_options",
                                        !.ticket_id_to_download = Unset]
            ELSE IF Contains("main", next_command) \/ Contains("menu", next_command)
                    \/ Contains("back", next_command)
            THEN view_reset(s)
            ELSE [s EXCEPT !.view_step = "display_options"]
    ELSE display_text_as_voice(s, "view.options.no_input", <<>>)

view_options(s, command) ==
    IF command # NoInput
    THEN LET next_command == lower(command)
             id_match == SearchTicketId(upper(next_command))
         IN IF Contains("download", next_command)
            THEN IF id_match = "" /\ s.last_viewed_ticket_id = Unset
                 THEN [display_text_as_voice(s, "view.options.nothing_to_download", <<>>)
                         EXCEPT !.view_step = "display_options"]
                 ELSE LET ticket_id == IF id_match # "" THEN id_match
                                       ELSE s.last_viewed_ticket_id
                          ticket == get_ticket_by_id(ticket_id, s.tickets)
                      IN IF ticket # EmptyDict
                         THEN [s EXCEPT !.ticket_id_to_download = ticket_id,
                                        !.view_step = "download_ticket"]
                         ELSE [display_text_as_voice(s, "view.options.not_found",
                                                     <<ticket_id>>)
                                 EXCEPT !.view_step = "display_options",
                                        !.ticket_id_to_download = Unset]
            ELSE IF Contains("main", next_command) \/ Contains("menu", next_command)
                    \/ Contains("back", next_command)
            THEN display_text_as_voice(view_reset(s), "view.options.main_menu", <<>>)
            ELSE [s EXCEPT !.view_step = "display_options"]
    ELSE display_text_as_voice(s, "view.options.no_input", <<>>)

process_view(s, command) ==
    LET s0 == IF s.view_step = Unset THEN [s EXCEPT !.view_step = "display_options"] ELSE s
    IN IF s0.view_step = "display_options" THEN view_display_options(s0, command)
       ELSE IF s0.view_step = "ask_name" THEN view_ask_name(s0, command)
       ELSE IF s0.view_step = "ask_id" THEN view_ask_id(s0, command)
       ELSE IF s0.view_step = "download_ticket" THEN view_download_ticket(s0)
       ELSE IF s0.view_step = "view_options" THEN view_options(s0, command)
       ELSE s0

-----------------------------------------------------------------------------
(* main: one run of the script *)

\* the run starts with empty output containers; a pending success message is
\* spoken first and cleared
main_prologue(s, command) ==
    LET s0 == [s EXCEPT !.voice_output = <<>>, !.heard = command,
                        !.engine.said = <<>>]
    IN IF s0.show_success
       THEN [display_text_as_voice(s0, "main.success_message", <<>>)
               EXCEPT !.show_success = FALSE]
       ELSE s0

\* command is what listen_for_command() returns if this run calls it
main(s, command) ==
    LET s0 == main_prologue(s, command)
    IN IF s0.current_operation = None THEN process_main_menu(s0, command)
       ELSE IF s0.current_operation = "book" THEN process_booking(s0, command)
       ELSE IF s0.current_operation = "modify" THEN process_modification(s0, command)
       ELSE IF s0.current_operation = "cancel" THEN process_cancellation(s0, command)
       ELSE IF s0.current_operation = "view" THEN process_view(s0, command)
       ELSE s0

-----------------------------------------------------------------------------
(* The state machine *)

Init ==
    /\ tickets = <<>>
    /\ current_operation = None
    /\ booking_step = None
    /\ modify_step = "select_ticket"
    /\ cancel_step = "select_ticket"
    /\ view_step = None
    /\ ticket_details = EmptyDict
    /\ selected_ticket_id = None
    /\ last_viewed_ticket_id = Unset
    /\ ticket_id_to_download = Unset
    /\ first_run = TRUE
    /\ show_success = FALSE
    /\ issued = 0
    /\ today \in ClockDates
    /\ voice_output = <<>>
    /\ heard = NoInput
    /\ scenario = 0

\* the Scenario A monitor: the number of leading utterances of Scenario A that
\* the turns since the main menu have matched, one per turn
NextScenario(k, operation, command) ==
    IF k > 0 /\ k < Len(ScenarioA) /\ command = ScenarioA[k + 1] THEN k + 1
    ELSE IF operation = None /\ command = ScenarioA[1] THEN 1
    ELSE 0

\* The step attributes modify_step, cancel_step and view_step do not exist until
\* the main menu or the handler's first lines install them; no code reads them
\* before that, so Init holds the values those lines install.

\* the session after the run becomes the session
Apply(n, command) ==
    /\ n.issued <= MaxTickets
    /\ tickets' = n.tickets
    /\ current_operation' = n.current_operation
    /\ booking_step' = n.booking_step
    /\ modify_step' = n.modify_step
    /\ cancel_step' = n.cancel_step
    /\ view_step' = n.view_step
    /\ ticket_details' = n.ticket_details
    /\ selected_ticket_id' = n.selected_ticket_id
    /\ last_viewed_ticket_id' = n.last_viewed_ticket_id
    /\ ticket_id_to_download' = n.ticket_id_to_download
    /\ first_run' = n.first_run
    /\ show_success' = n.show_success
    /\ issued' = n.issued
    /\ today' = n.today
    /\ voice_output' = n.voice_output
    /\ heard' = n.heard
    /\ scenario' = NextScenario(scenario, current_operation, command)

\* one run of the script, dispatched by main() to handler, in which
\* listen_for_command() returns an utterance of inputs, or nothing
Listen(inputs, handler(_, _)) ==
    \E command \in inputs \cup {NoInput} :
        LET n == handler(main_prologue(Session, command), command)
        IN Apply(n, command)

MainMenu == current_operation = None /\ Listen(MenuInputs, process_main_menu)

BookName ==
    current_operation = "book" /\ booking_step = "name" /\ Listen(NameInputs, booking_name)
BookAge ==
    current_operation = "book" /\ booking_step = "age" /\ Listen(AgeInputs, booking_age)
BookGender ==
    /\ current_operation = "book"
    /\ booking_step = "gender"
    /\ Listen(GenderInputs, booking_gender)
BookSource ==
    /\ current_operation = "book"
    /\ booking_step = "source"
    /\ Listen(SourceInputs, booking_source)
BookDestination ==
    /\ current_operation = "book"
    /\ booking_step = "destination"
    /\ Listen(StationInputs, booking_destination)
BookTravelDate ==
    /\ current_operation = "book"
    /\ booking_step = "travel_date"
    /\ Listen(DateInputs, booking_travel_date)
BookConfirm ==
    /\ current_operation = "book"
    /\ booking_step = "confirm"
    /\ Listen(BookConfirmInputs, booking_confirm)

ModifySelectTicket ==
    /\ current_operation = "modify"
    /\ modify_step = "select_ticket"
    /\ Listen(SelectTicketInputs, modify_select_ticket)
ModifySelectField ==
    /\ current_operation = "modify"
    /\ modify_step = "select_field"
    /\ Listen(SelectFieldInputs, modify_select_field)
ModifyUpdateName ==
    /\ current_operation = "modify"
    /\ modify_step = "update_name"
    /\ Listen(UpdateNameInputs, modify_update_name)
ModifyUpdateAge ==
    /\ current_operation = "modify"
    /\ modify_step = "update_age"
    /\ Listen(UpdateAgeInputs, modify_update_age)
ModifyUpdateGender ==
    /\ current_operation = "modify"
    /\ modify_step = "update_gender"
    /\ Listen(UpdateGenderInputs, modify_update_gender)
ModifyUpdateSource ==
    /\ current_operation = "modify"
    /\ modify_step = "update_source"
    /\ Listen(StationInputs, modify_update_source)
ModifyUpdateDestination ==
    /\ current_operation = "modify"
    /\ modify_step = "update_destination"
    /\ Listen(StationInputs, modify_update_destination)

CancelSelectTicket ==
    /\ current_operation = "cancel"
    /\ cancel_step = "select_ticket"
    /\ Listen(SelectTicketInputs, cancel_select_ticket)
CancelConfirm ==
    /\ current_operation = "cancel"
    /\ cancel_step = "confirm"
    /\ Listen(CancelConfirmInputs, cancel_confirm)

ViewDisplayOptions ==
    /\ current_operation = "view"
    /\ view_step = "display_options"
    /\ Listen(DisplayOptionsInputs, view_display_options)
ViewAskName ==
    /\ current_operation = "view"
    /\ view_step = "ask_name"
    /\ Listen(AskNameInputs, view_ask_name)
ViewAskId ==
    current_operation = "view" /\ view_step = "ask_id" /\ Listen(AskIdInputs, view_ask_id)
ViewOptions ==
    /\ current_operation = "view"
    /\ view_step = "view_options"
    /\ Listen(ViewOptionsInputs, view_options)
\* the run after st.rerun(): the download step does not listen
ViewDownloadTicket ==
    /\ current_operation = "view"
    /\ view_step = "download_ticket"
    /\ LET n == view_download_ticket(main_prologue(Session, NoInput))
       IN Apply(n, NoInput)

Next ==
    \/ MainMenu
    \/ BookName \/ BookAge \/ BookGender \/ BookSource \/ BookDestination
    \/ BookTravelDate \/ BookConfirm
    \/ ModifySelectTicket \/ ModifySelectField \/ ModifyUpdateName \/ ModifyUpdateAge
    \/ ModifyUpdateGender \/ ModifyUpdateSource \/ ModifyUpdateDestination
    \/ CancelSelectTicket \/ CancelConfirm
    \/ ViewDisplayOptions \/ ViewAskName \/ ViewAskId \/ ViewOptions
    \/ ViewDownloadTicket

Spec == Init /\ [][Next]_vars

-----------------------------------------------------------------------------
(* Single steps on their own: the dialog starts at the main menu, in an age or
   station step of Book or Modify, or in the confirm step of Book or Cancel, as
   the steps before leave it, and the user answers with the probes *)

\* a ticket as Scenario A books it
ProbeTicket(now) ==
    book_ticket("Jane Doe", 29, "Female", "Central", "North",
                strftime_iso(PlusOneDay(now)), 0, now)

\* a booking that has arrived at step
BookingAt(step, now) ==
    [tickets |-> <<>>, current_operation |-> "book", booking_step |-> step,
     modify_step |-> "select_ticket", cancel_step |-> "select_ticket", view_step |-> None,
     ticket_details |->
        IF step = "age" THEN [name |-> "Jane Doe"]
        ELSE IF step = "gender" THEN [name |-> "Jane Doe", age |-> 29]
        ELSE IF step = "source" THEN [name |-> "Jane Doe", age |-> 29, gender |-> "Female"]
        ELSE IF step = "destination"
        THEN [name |-> "Jane Doe", age |-> 29, gender |-> "Female", source |-> "Central"]
        ELSE IF step = "travel_date"
        THEN [name |-> "Jane Doe", age |-> 29, gender |-> "Female", source |-> "Central",
              destination |-> "North"]
        ELSE [name |-> "Jane Doe", age |-> 29, gender |-> "Female", source |-> "Central",
              destination |-> "North", travel_date |-> strftime_iso(PlusOneDay(now))],
     selected_ticket_id |-> None, last_viewed_ticket_id |-> Unset,
     ticket_id_to_download |-> Unset, first_run |-> FALSE, show_success |-> FALSE,
     issued |-> 0, today |-> now,
     voice_output |-> <<>>, heard |-> NoInput]

\* a modification of the one stored ticket that has arrived at step
ModifyingAt(step, now) ==
    [tickets |-> <<ProbeTicket(now)>>, current_operation |-> "modify",
     booking_step |-> None, modify_step |-> step, cancel_step |-> "select_ticket",
     view_step |-> None, ticket_details |-> ProbeTicket(now),
     selected_ticket_id |-> ProbeTicket(now).id, last_viewed_ticket_id |-> Unset,
     ticket_id_to_download |-> Unset, first_run |-> FALSE, show_success |-> FALSE,
     issued |-> 1, today |-> now,
     voice_output |-> <<>>, heard |-> NoInput]

\* a cancellation that has selected the one stored ticket
CancellingAt(step, now) ==
    [tickets |-> <<ProbeTicket(now)>>, current_operation |-> "cancel",
     booking_step |-> None, modify_step |-> "select_ticket", cancel_step |-> step,
     view_step |-> None, ticket_details |-> EmptyDict,
     selected_ticket_id |-> ProbeTicket(now).id, last_viewed_ticket_id |-> Unset,
     ticket_id_to_download |-> Unset, first_run |-> FALSE, show_success |-> FALSE,
     issued |-> 1, today |-> now,
     voice_output |-> <<>>, heard |-> NoInput]

\* the main menu with one ticket in the store, after an operation has ended
MenuAt(now) ==
    [tickets |-> <<ProbeTicket(now)>>, current_operation |-> None,
     booking_step |-> None, modify_step |-> "select_ticket",
     cancel_step |-> "select_ticket", view_step |-> None, ticket_details |-> EmptyDict,
     selected_ticket_id |-> None, last_viewed_ticket_id |-> Unset,
     ticket_id_to_download |-> Unset, first_run |-> FALSE, show_success |-> FALSE,
     issued |-> 1, today |-> now,
     voice_output |-> <<>>, heard |-> NoInput]

FieldStates ==
    {MenuAt(now) : now \in ClockDates} \cup
    {BookingAt(step, now) :
        step \in {"age", "gender", "source", "destination", "travel_date", "confirm"},
        now \in ClockDates}
        \cup {CancellingAt("confirm", now) : now \in ClockDates}
        \cup {ModifyingAt(step, now) :
                 step \in {"update_age", "update_gender", "update_source",
                          "update_destination"},
                 now \in ClockDates}

InitFields ==
    \E s \in FieldStates :
        /\ tickets = s.tickets
        /\ current_operation = s.current_operation
        /\ booking_step = s.booking_step
        /\ modify_step = s.modify_step
        /\ cancel_step = s.cancel_step
        /\ view_step = s.view_step
        /\ ticket_details = s.ticket_details
        /\ selected_ticket_id = s.selected_ticket_id
        /\ last_viewed_ticket_id = s.last_viewed_ticket_id
        /\ ticket_id_to_download = s.ticket_id_to_download
        /\ first_run = s.first_run
        /\ show_success = s.show_success
        /\ issued = s.issued
        /\ today = s.today
        /\ voice_output = s.voice_output
        /\ heard = s.heard
        /\ scenario = 0

ProbeBookAge ==
    current_operation = "book" /\ booking_step = "age" /\ Listen(AgeProbes, booking_age)
ProbeBookSource ==
    /\ current_operation = "book"
    /\ booking_step = "source"
    /\ Listen(StationProbes, booking_source)
ProbeBookDestination ==
    /\ current_operation = "book"
    /\ booking_step = "destination"
    /\ Listen(StationProbes, booking_destination)
ProbeUpdateAge ==
    /\ current_operation = "modify"
    /\ modify_step = "update_age"
    /\ Listen(AgeProbes, modify_update_age)
ProbeUpdateSource ==
    /\ current_operation = "modify"
    /\ modify_step = "update_source"
    /\ Listen(StationProbes, modify_update_source)
ProbeUpdateDestination ==
    /\ current_operation = "modify"
    /\ modify_step = "update_destination"
    /\ Listen(StationProbes, modify_update_destination)

ProbeBookConfirm ==
    /\ current_operation = "book"
    /\ booking_step = "confirm"
    /\ Listen(BookConfirmProbes, booking_confirm)
ProbeCancelConfirm ==
    /\ current_operation = "cancel"
    /\ cancel_step = "confirm"
    /\ Listen(CancelConfirmProbes, cancel_confirm)

ProbeMenu == current_operation = None /\ Listen(MenuProbes, process_main_menu)

ProbeBookGender ==
    /\ current_operation = "book"
    /\ booking_step = "gender"
    /\ Listen(GenderProbes, booking_gender)
ProbeUpdateGender ==
    /\ current_operation = "modify"
    /\ modify_step = "update_gender"
    /\ Listen(GenderProbes, modify_update_gender)
ProbeBookTravelDate ==
    /\ current_operation = "book"
    /\ booking_step = "travel_date"
    /\ Listen(DateProbes, booking_travel_date)

NextFields ==
    \/ ProbeMenu
    \/ ProbeBookAge \/ ProbeBookSource \/ ProbeBookDestination
    \/ ProbeBookConfirm \/ ProbeCancelConfirm
    \/ ProbeUpdateAge \/ ProbeUpdateSource \/ ProbeUpdateDestination
    \/ ProbeBookGender \/ ProbeUpdateGender \/ ProbeBookTravelDate

SpecFields == InitFields /\ [][NextFields]_vars

-----------------------------------------------------------------------------
(* The dialog with a speech engine that may raise in any run: each run is
   main() as the script executes it, under either outcome of the engine *)

\* tickets booked in the dialog with the unreliable engine
SpeechTickets == 1

\* main() for the step the dialog is in: the prologue, then the branch that the
\* dispatch of main() and of the operation's handler selects
RunFrom(s, command) ==
    LET s0 == main_prologue(s, command)
    IN IF current_operation = None THEN process_main_menu(s0, command)
       ELSE IF current_operation = "book"
       THEN (IF booking_step = "name" THEN booking_name(s0, command)
             ELSE IF booking_step = "age" THEN booking_age(s0, command)
             ELSE IF booking_step = "gender" THEN booking_gender(s0, command)
             ELSE IF booking_step = "source" THEN booking_source(s0, command)
             ELSE IF booking_step = "destination" THEN booking_destination(s0, command)
             ELSE IF booking_step = "travel_date" THEN booking_travel_date(s0, command)
             ELSE booking_confirm(s0, command))
       ELSE IF current_operation = "modify"
       THEN (IF modify_step = "select_ticket" THEN modify_select_ticket(s0, command)
             ELSE IF modify_step = "select_field" THEN modify_select_field(s0, command)
             ELSE IF modify_step = "update_name" THEN modify_update_name(s0, command)
             ELSE IF modify_step = "update_age" THEN modify_update_age(s0, command)
             ELSE IF modify_step = "update_gender" THEN modify_update_gender(s0, command)
             ELSE IF modify_step = "update_source" THEN modify_update_source(s0, command)
             ELSE modify_update_destination(s0, command))
       ELSE IF current_operation = "cancel"
       THEN (IF cancel_step = "select_ticket" THEN cancel_select_ticket(s0, command)
             ELSE cancel_confirm(s0, command))
       ELSE (IF view_step = "display_options" THEN view_display_options(s0, command)
             ELSE IF view_step = "ask_name" THEN view_ask_name(s0, command)
             ELSE IF view_step = "ask_id" THEN view_ask_id(s0, command)
             ELSE IF view_step = "view_options" THEN view_options(s0, command)
             ELSE view_download_ticket(s0))

\* one run of the script under either outcome of the speech engine, in which
\* listen_for_command() returns an utterance of inputs, or nothing
ListenSpeech(inputs, handler(_, _)) ==
    \E command \in inputs \cup {NoInput}, raises \in SpeechOutcomes :
        LET n == handler(main_prologue(UnderSpeech(Session, raises), command), command)
        IN n.issued <= SpeechTickets /\ Apply(n, command)

SpeechMenu == current_operation = None /\ ListenSpeech(MenuInputs, process_main_menu)

SpeechBook ==
    /\ current_operation = "book"
    /\ \/ booking_step = "name" /\ ListenSpeech(NameInputs, booking_name)
       \/ booking_step = "age" /\ ListenSpeech(AgeInputs, booking_age)
       \/ booking_step = "gender" /\ ListenSpeech(GenderInputs, booking_gender)
       \/ booking_step = "source" /\ ListenSpeech(SourceInputs, booking_source)
       \/ booking_step = "destination" /\ ListenSpeech(StationInputs, booking_destination)
       \/ booking_step = "travel_date" /\ ListenSpeech(DateInputs, booking_travel_date)
       \/ booking_step = "confirm" /\ ListenSpeech(BookConfirmInputs, booking_confirm)

SpeechModify ==
    /\ current_operation = "modify"
    /\ \/ modify_step = "select_ticket"
             /\ ListenSpeech(SelectTicketInputs, modify_select_ticket)
       \/ modify_step = "select_field"
             /\ ListenSpeech(SelectFieldInputs, modify_select_field)
       \/ modify_step = "update_name" /\ ListenSpeech(UpdateNameInputs, modify_update_name)
       \/ modify_step = "update_age" /\ ListenSpeech(UpdateAgeInputs, modify_update_age)
       \/ modify_step = "update_gender"
             /\ ListenSpeech(UpdateGenderInputs, modify_update_gender)
       \/ modify_step = "update_source" /\ ListenSpeech(StationInputs, modify_update_source)
       \/ modify_step = "update_destination"
             /\ ListenSpeech(StationInputs, modify_update_destination)

SpeechCancel ==
    /\ current_operation = "cancel"
    /\ \/ cancel_step = "select_ticket"
             /\ ListenSpeech(SelectTicketInputs, cancel_select_ticket)
       \/ cancel_step = "confirm" /\ ListenSpeech(CancelConfirmInputs, cancel_confirm)

SpeechView ==
    /\ current_operation = "view"
    /\ \/ view_step = "display_options"
             /\ ListenSpeech(DisplayOptionsInputs, view_display_options)
       \/ view_step = "ask_name" /\ ListenSpeech(AskNameInputs, view_ask_name)
       \/ view_step = "ask_id" /\ ListenSpeech(AskIdInputs, view_ask_id)
       \/ view_step = "view_options" /\ ListenSpeech(ViewOptionsInputs, view_options)
       \/ /\ view_step = "download_ticket"
          /\ \E raises \in SpeechOutcomes :
                LET n == view_download_ticket(
                             main_prologue(UnderSpeech(Session, raises), NoInput))
                IN Apply(n, NoInput)

NextSpeech == SpeechMenu \/ SpeechBook \/ SpeechModify \/ SpeechCancel \/ SpeechView

SpecSpeech == Init /\ [][NextSpeech]_vars

-----------------------------------------------------------------------------
(* Properties *)

\* the notices of a run that its step handler emitted: everything but the
\* pending success message of main() and the first-run welcome
IsHandlerNotice(call) == call[1] \notin {"main.success_message", "menu.welcome"}
HandlerTags(output) == Tags(SelectSeq(output, IsHandlerNotice))

\* the passenger fields of a ticket
PassengerFields == {"name", "age", "gender", "source", "destination"}

\* the day after each date of ClockDates, in ISO form
DayAfter(date) == IF date = <<2026, 11, 3>> THEN "2026-11-04" ELSE "2027-01-01"

\* C1: Scenario A. When the eight utterances 'book a ticket', 'Jane Doe', '29',
\* 'female', 'Central', 'North', 'tomorrow', 'confirm' are heard one per turn
\* starting at the main menu, the first seven turns leave the store alone and the
\* eighth appends exactly one ticket carrying Jane Doe, 29, Female, Central,
\* North and the day after the current date, and leaves current_operation None,
\* booking_step None and an empty field buffer.
C1_ScenarioA ==
    [][/\ (scenario' \in 1..(Len(ScenarioA) - 1)) =>
              /\ tickets' = tickets
              /\ current_operation' = "book"
       /\ (scenario' = Len(ScenarioA)) =>
              /\ Len(tickets') = Len(tickets) + 1
              /\ SubSeq(tickets', 1, Len(tickets)) = tickets
              /\ LET t == tickets'[Len(tickets')]
                 IN /\ t.name = "Jane Doe"
                    /\ t.age = 29
                    /\ t.gender = "Female"
                    /\ t.source = "Central"
                    /\ t.destination = "North"
                    /\ t.travel_date = DayAfter(today)
              /\ current_operation' = None
              /\ booking_step' = None
              /\ ticket_details' = EmptyDict]_vars

\* Scenario A has just been completed on the last day of the year
C1_Witness ==
    /\ scenario = Len(ScenarioA)
    /\ today = <<2026, 12, 31>>
    /\ tickets # <<>>
    /\ tickets[Len(tickets)].travel_date = "2027-01-01"

\* C2: when 'confirm' is heard at select_field of Modify and the operation ends,
\* the selected ticket in the store carries every value that the update steps
\* put in the field buffer during the operation.
C2_CommitCarriesEdits ==
    [][(/\ current_operation = "modify"
        /\ modify_step = "select_field"
        /\ heard' = "confirm"
        /\ current_operation' = None) =>
            LET t == get_ticket_by_id(selected_ticket_id, tickets')
            IN \A f \in PassengerFields \cap DOMAIN ticket_details :
                   t[f] = ticket_details[f]]_vars

\* C3: every ticket in the store has 1 <= age <= 120, a gender among Male, Female
\* and Other, a source and a destination of the station catalog, and a source
\* different from its destination.
C3_StoredTicketsValid ==
    \A i \in 1..Len(tickets) :
        /\ tickets[i].age \in 1..120
        /\ tickets[i].gender \in {"Male", "Female", "Other"}
        /\ \E j \in 1..Len(get_station_list) : get_station_list[j] = tickets[i].source
        /\ \E j \in 1..Len(get_station_list) : get_station_list[j] = tickets[i].destination
        /\ tickets[i].source # tickets[i].destination

\* a Modify operation has just been committed and the dialog is back at the menu
C3_Witness ==
    /\ tickets # <<>>
    /\ current_operation = None
    /\ heard = "confirm"
    /\ HandlerTags(voice_output) = <<"modify.field.updated">>

\* C4: at the main menu the documented commands reach their operations: 'Book a
\* ticket' book, 'View tickets' view, and with a ticket in the store 'Modify a
\* ticket' modify and 'Cancel a ticket' cancel.
C4_DocumentedCommands ==
    [][current_operation = None =>
          /\ heard' = "Book a ticket" => current_operation' = "book"
          /\ heard' = "View tickets" => current_operation' = "view"
          /\ (heard' = "Modify a ticket" /\ tickets # <<>>) => current_operation' = "modify"
          /\ (heard' = "Cancel a ticket" /\ tickets # <<>>) => current_operation' = "cancel"]_vars

\* the priority order of the main menu: the keywords of each branch, the notices
\* that tell the branch was taken, and the operation and step it leaves
MenuPriority ==
    <<[keywords |-> {"book", "new", "ticket"}, notices |-> {"menu.book"}],
      [keywords |-> {"modify", "edit", "change"},
       notices |-> {"menu.modify", "menu.modify.none"}],
      [keywords |-> {"cancel", "delete", "remove"},
       notices |-> {"menu.cancel", "menu.cancel.none"}],
      [keywords |-> {"view", "show", "list", "all"}, notices |-> {"menu.view"}],
      [keywords |-> {"find", "search", "my tickets", "my name"}, notices |-> {"menu.find"}],
      [keywords |-> {"ticket id", "find id", "search id", "lookup id", "ticket number"},
       notices |-> {"menu.ticket_id"}],
      [keywords |-> {"help"}, notices |-> {"menu.help"}]>>

\* the branches of MenuPriority with a keyword that occurs in the utterance,
\* compared case-insensitively
MenuHitsOf(command) ==
    {i \in 1..Len(MenuPriority) :
        \E k \in MenuPriority[i].keywords : Contains(k, lower(command))}
MenuHitsTable == [u \in Utterances |-> MenuHitsOf(u)]
MenuHits(command) == MenuHitsTable[command]

\* C5: for every utterance heard at the main menu, the branch taken is the first
\* in the order book, modify, cancel, view-all, view-by-name, view-by-id, help
\* with a keyword that is a case-insensitive substring of the utterance; an
\* utterance matching none stays at None with the retry prompt.
C5_FirstMatchWins ==
    [][(current_operation = None /\ heard' # NoInput) =>
          LET hits == MenuHits(heard')
              said == HandlerTags(voice_output')
          IN /\ said # <<>>
             /\ IF hits = {}
                THEN said = <<"menu.not_understood">> /\ current_operation' = None
                ELSE LET first == CHOOSE i \in hits : \A j \in hits : i <= j
                     IN said[1] \in MenuPriority[first].notices]_vars

\* an utterance with keywords of two branches went to the earlier one
C5_Witness ==
    /\ heard = "View tickets"
    /\ Cardinality(MenuHits(heard)) > 1
    /\ current_operation = "book"
    /\ HandlerTags(voice_output) = <<"menu.book">>

\* the notice each step emits when nothing was heard
BookRePrompt ==
    [name |-> "book.name.no_input", age |-> "book.age.no_input",
     gender |-> "book.gender.no_input", source |-> "book.source.no_input",
     destination |-> "book.destination.no_input", travel_date |-> "book.date.no_input",
     confirm |-> "book.confirm.no_input"]
ModifyRePrompt ==
    [select_ticket |-> "modify.select.no_input", select_field |-> "modify.field.no_input",
     update_name |-> "modify.name.no_input", update_age |-> "modify.age.no_input",
     update_gender |-> "modify.gender.no_input", update_source |-> "modify.source.no_input",
     update_destination |-> "modify.destination.no_input"]
CancelRePrompt ==
    [select_ticket |-> "cancel.select.no_input", confirm |-> "cancel.confirm.no_input"]
ViewRePrompt ==
    [display_options |-> "view.no_input", ask_name |-> "view.ask_name.no_input",
     ask_id |-> "view.ask_id.no_input", view_options |-> "view.options.no_input"]

\* the re-prompt of the step the dialog is in
RePrompt ==
    IF current_operation = "book" THEN BookRePrompt[booking_step]
    ELSE IF current_operation = "modify" THEN ModifyRePrompt[modify_step]
    ELSE IF current_operation = "cancel" THEN CancelRePrompt[cancel_step]
    ELSE IF current_operation = "view" THEN ViewRePrompt[view_step]
    ELSE "menu.listening"

\* the step that does not listen
Downloading == current_operation = "view" /\ view_step = "download_ticket"

\* C6: in every listening step, a turn in which nothing was heard leaves
\* current_operation, the step, the field buffer, selected_ticket_id and the
\* store unchanged, and the step handler emits that step's re-prompt and
\* nothing else.
C6_NoInputIsNoOp ==
    [][(heard' = NoInput /\ ~Downloading) =>
          /\ UNCHANGED <<current_operation, booking_step, modify_step, cancel_step,
                         view_step, ticket_details, selected_ticket_id, tickets>>
          /\ HandlerTags(voice_output') = <<RePrompt>>]_vars

\* nothing was heard at the confirmation of a Cancel: the ticket is still
\* selected and still in the store
C6_Witness ==
    /\ heard = NoInput
    /\ current_operation = "cancel"
    /\ cancel_step = "confirm"
    /\ get_ticket_by_id(selected_ticket_id, tickets) # EmptyDict
    /\ Tags(voice_output) = <<"cancel.confirm.no_input">>

\* C7: every run of the controller calls display_text_as_voice exactly once.
C7_OneNoticePerTurn == [][Len(voice_output') = 1]_vars

\* the turns the escape below may take
EscapeTurns == 8

\* what a user who wants to get back to the main menu says at each step: valid
\* data up to the first step that takes 'cancel', 'no', 'all' or 'main menu'
EscapeUtterance(s) ==
    LET stored == IF s.tickets # <<>> THEN s.tickets[1].id ELSE "main menu"
    IN IF s.current_operation = "book"
       THEN (IF s.booking_step = "name" THEN "Jane Doe"
             ELSE IF s.booking_step = "age" THEN "29"
             ELSE IF s.booking_step = "gender" THEN "female"
             ELSE IF s.booking_step = "source" THEN "Central"
             ELSE IF s.booking_step = "destination" THEN "North"
             ELSE IF s.booking_step = "travel_date" THEN "tomorrow"
             ELSE "cancel")
       ELSE IF s.current_operation = "modify"
       THEN (IF s.modify_step = "select_ticket" THEN stored
             ELSE IF s.modify_step = "update_name" THEN "John Smith"
             ELSE IF s.modify_step = "update_age" THEN "30"
             ELSE IF s.modify_step = "update_gender" THEN "male"
             ELSE IF s.modify_step \in {"update_source", "update_destination"} THEN "North"
             ELSE "cancel")
       ELSE IF s.current_operation = "cancel"
       THEN (IF s.cancel_step = "select_ticket" THEN stored ELSE "no")
       ELSE (IF s.view_step = "display_options" THEN "all"
             ELSE IF s.view_step = "ask_name" THEN "Jane Doe"
             ELSE IF s.view_step = "ask_id" THEN stored
             ELSE "main menu")

\* saying EscapeUtterance turn after turn reaches the main menu
RECURSIVE EscapeRun(_, _)
EscapeRun(s, turns) ==
    IF s.current_operation = None THEN TRUE
    ELSE IF turns = 0 THEN FALSE
    ELSE EscapeRun(main(s, EscapeUtterance(s)), turns - 1)

\* the session without the record of the last run (what was heard, shown and
\* said in it), which no handler reads
Dialog(s) == [s EXCEPT !.voice_output = <<>>, !.heard = NoInput,
                       !.engine = [raises |-> FALSE, said |-> <<>>]]

\* some sequence of utterances leads from a session of frontier to the main
\* menu: the search over every utterance, turn by turn, until no new session
\* comes up
RECURSIVE MenuReachable(_, _)
MenuReachable(frontier, seen) ==
    IF \E s \in frontier : s.current_operation = None THEN TRUE
    ELSE LET next == {Dialog(main(s, c)) : s \in frontier, c \in Utterances} \ seen
         IN IF next = {} THEN FALSE ELSE MenuReachable(next, seen \cup next)

\* C8: from every reachable state some finite sequence of utterances brings the
\* dialog back to current_operation None.
C8_MenuAlwaysReachable ==
    \/ EscapeRun(Session, EscapeTurns)
    \/ MenuReachable({Dialog(Session)}, {Dialog(Session)})

\* C9: whenever 'help' is heard, in the main menu and in every step of every
\* operation, the help message is emitted and neither the store nor the field
\* buffer changes.
C9_HelpAnywhere ==
    [][lower(heard') = "help" =>
          /\ \E i \in 1..Len(voice_output') : voice_output'[i][1] = "menu.help"
          /\ tickets' = tickets
          /\ ticket_details' = ticket_details]_vars

\* the step of the selecting operations
SelectStep(op, of_modify, of_cancel) == IF op = "modify" THEN of_modify ELSE of_cancel

\* the utterance contains the id of a ticket in the store
HasStoredId(command, store) ==
    \E i \in 1..Len(store) : Contains(store[i].id, upper(command))

\* this turn is heard at select_ticket of op
SelectTurn(op) ==
    /\ current_operation = op
    /\ SelectStep(op, modify_step, cancel_step) = "select_ticket"
    /\ heard' # NoInput

\* the turn leaves the dialog at select_ticket of op with nothing selected
StaysAtSelect(op) ==
    /\ current_operation' = op
    /\ SelectStep(op, modify_step', cancel_step') = "select_ticket"
    /\ selected_ticket_id' = None

\* an utterance without an id token whose name search matches several tickets
\* selects none of them and lists each by id
AmbiguousStays(op) ==
    LET matches == get_tickets_by_name(heard', tickets)
        said == SelectSeq(voice_output', IsHandlerNotice)
    IN (SelectTurn(op) /\ SearchTicketId(upper(heard')) = "" /\ Len(matches) > 1) =>
           /\ StaysAtSelect(op)
           /\ Len(said) = 1 + Len(matches)
           /\ \A k \in 1..Len(matches) : said[k + 1][2][2] = matches[k].id

\* a turn that leaves select_ticket heard the id of a stored ticket, or a name
\* that the name search matches to exactly one ticket, and selected that ticket
AdvanceNeedsOneTicket(op) ==
    LET matches == get_tickets_by_name(heard', tickets)
    IN (SelectTurn(op) /\ ~StaysAtSelect(op)) =>
           /\ HasStoredId(heard', tickets) \/ Len(matches) = 1
           /\ get_ticket_by_id(selected_ticket_id', tickets) # EmptyDict
           /\ IF HasStoredId(heard', tickets)
              THEN Contains(selected_ticket_id', upper(heard'))
              ELSE matches[1].id = selected_ticket_id'

\* after the candidates were listed, a turn that leaves select_ticket heard the
\* id of a stored ticket
AdvanceNeedsId(op) ==
    (/\ SelectTurn(op)
     /\ HandlerTags(voice_output) # <<>>
     /\ HandlerTags(voice_output)[1] \in {"modify.select.ambiguous", "cancel.select.ambiguous"}
     /\ ~StaysAtSelect(op)) => HasStoredId(heard', tickets)

C11_AgeOutOfRangeRejected ==
    [][(current_operation = "modify" /\ modify_step = "update_age" /\ heard' = "200") =>
          /\ current_operation' = "modify"
          /\ modify_step' = "update_age"
          /\ HandlerTags(voice_output') = <<"modify.age.out_of_range">>
          /\ ticket_details' = ticket_details
          /\ selected_ticket_id' = selected_ticket_id
          /\ tickets' = tickets]_vars

\* '200' was heard at update_age for a ticket of the store: the buffer still
\* holds the ticket's age
C11_Witness ==
    /\ current_operation = "modify"
    /\ modify_step = "update_age"
    /\ heard = "200"
    /\ selected_ticket_id = "AB12CD34"
    /\ get_ticket_by_id(selected_ticket_id, tickets) # EmptyDict
    /\ ticket_details.age = get_ticket_by_id(selected_ticket_id, tickets).age
    /\ Tags(voice_output) = <<"modify.age.out_of_range">>

\* the step a selection leads to
SelectedStep(op) == IF op = "modify" THEN "select_field" ELSE "confirm"

\* the first notice the handler emitted in the run that ends in the primed state
FirstNotice(output) == IF HandlerTags(output) = <<>> THEN "" ELSE HandlerTags(output)[1]

\* the turn at select_ticket of op heard an id token: the ticket of that id is
\* selected, or, when no ticket has it, the step stays with the 'No ticket
\* found' notice alone, whatever names the utterance contains
IdTokenDecides(op) ==
    LET token == SearchTicketId(upper(heard'))
        known == \E i \in 1..Len(tickets) : tickets[i].id = token
    IN (SelectTurn(op) /\ token # "") =>
           IF known
           THEN /\ selected_ticket_id' = token
                /\ current_operation' = op
                /\ SelectStep(op, modify_step', cancel_step') = SelectedStep(op)
                /\ HandlerTags(voice_output') = <<op \o ".select.found_by_id">>
           ELSE /\ StaysAtSelect(op)
                /\ HandlerTags(voice_output') = <<op \o ".select.id_not_found">>

\* the turn at select_ticket of op heard no id token: the name search decides
NameSearchWithoutToken(op) ==
    (SelectTurn(op) /\ SearchTicketId(upper(heard')) = "") =>
        FirstNotice(voice_output') =
            (IF get_tickets_by_name(heard', tickets) = <<>> THEN op \o ".select.none_found"
             ELSE IF Len(get_tickets_by_name(heard', tickets)) = 1
                  THEN op \o ".select.found_by_name"
                  ELSE op \o ".select.ambiguous")

\* C12: in select_ticket of Modify and of Cancel an id token (a word of exactly
\* 8 letters or digits of the uppercased utterance) decides before any name
\* search: a stored ticket's id selects that ticket; an id of no stored ticket
\* gives the 'No ticket found' re-prompt alone, the step stays select_ticket and
\* selected_ticket_id stays None; the name search runs only without an id token.
C12_IdTokenBeforeName ==
    [][\A op \in {"modify", "cancel"} : IdTokenDecides(op) /\ NameSearchWithoutToken(op)]_vars

\* an utterance with the name of a stored ticket and an id of no ticket was
\* heard at select_ticket of Cancel
C12_Witness ==
    /\ current_operation = "cancel"
    /\ cancel_step = "select_ticket"
    /\ heard = "Jane Doe zz99zz99"
    /\ get_tickets_by_name("Jane Doe", tickets) # <<>>
    /\ selected_ticket_id = None
    /\ voice_output = << <<"cancel.select.id_not_found", <<"ZZ99ZZ99">>>> >>

\* the notices with which the handlers report a validation failure: age out of
\* range, unparseable or invalid date, unmatched station, ambiguous name, ticket
\* id not found
ValidationFailures ==
    {"book.age.out_of_range", "book.age.not_understood", "book.date.invalid",
     "book.date.not_understood", "book.source.no_match", "book.destination.no_match",
     "modify.age.out_of_range", "modify.age.not_understood", "modify.source.no_match",
     "modify.destination.no_match", "modify.select.ambiguous", "cancel.select.ambiguous",
     "modify.select.id_not_found", "cancel.select.id_not_found", "view.id_not_found",
     "view.ask_id.not_found", "view.options.not_found", "view.download.not_found"}

\* C13: a run that reports a validation failure leaves current_operation and the
\* step of every operation as they were before the run.
C13_FailureHoldsStep ==
    [][FirstNotice(voice_output') \in ValidationFailures =>
          UNCHANGED <<current_operation, booking_step, modify_step, cancel_step,
                      view_step>>]_vars

\* the age each probe is to be taken for; 0 where it is to be rejected
ExpectedAge ==
    [u \in AgeProbes |->
        IF u = "1" THEN 1
        ELSE IF u = "120" THEN 120
        ELSE IF u = "30 or 200" THEN 30
        ELSE IF u = "I am 45" THEN 45
        ELSE 0]

\* this turn is heard at the age step of Book or of Modify
AgeTurn ==
    /\ \/ current_operation = "book" /\ booking_step = "age"
       \/ current_operation = "modify" /\ modify_step = "update_age"
    /\ heard' # NoInput

\* the age step took the utterance for age
AgeAccepted(age) ==
    /\ ticket_details' = Put(ticket_details, "age", age)
    /\ IF current_operation = "book"
       THEN booking_step' = "gender" /\ modify_step' = modify_step
       ELSE modify_step' = "select_field" /\ booking_step' = booking_step

\* the age step rejected the utterance
AgeRejected ==
    /\ UNCHANGED <<ticket_details, booking_step, modify_step>>
    /\ FirstNotice(voice_output') \in
           {"book.age.out_of_range", "book.age.not_understood",
            "modify.age.out_of_range", "modify.age.not_understood"}

\* C14: the age steps of Book and Modify accept an utterance exactly when its
\* first standalone run of digits has a value in 1..120: '1' and '120' advance
\* the step, '0', '121' and an utterance without digits hold it, and only the
\* first number counts ('30 or 200' is 30, '200 or 30' is rejected).
C14_AgeBoundaries ==
    [][AgeTurn =>
          /\ current_operation' = current_operation
          /\ tickets' = tickets
          /\ LET first == FirstDigitRun(heard', 1, Len(heard'))
                 inside == first # "" /\ StrToInt(first) \in 1..120
             IN IF inside THEN AgeAccepted(StrToInt(first)) ELSE AgeRejected
          /\ heard' \in AgeProbes =>
                 IF ExpectedAge[heard'] = 0 THEN AgeRejected
                 ELSE AgeAccepted(ExpectedAge[heard'])]_vars

\* the upper limit was heard and taken in Book, and in Modify
C14_Witness ==
    /\ heard = "120"
    /\ ticket_details.age = 120
    /\ \/ current_operation = "book" /\ booking_step = "gender"
       \/ current_operation = "modify" /\ modify_step = "select_field"

\* the catalog of Scenario D
ScenarioDCatalog == <<"Central", "Eastside">>

\* this turn is heard at a station step of Book or of Modify
StationTurn ==
    \/ current_operation = "book" /\ booking_step \in {"source", "destination"}
    \/ current_operation = "modify" /\ modify_step \in {"update_source", "update_destination"}

\* the station step matched nothing and holds
NoStationMatched ==
    /\ UNCHANGED <<current_operation, booking_step, modify_step, ticket_details, tickets>>
    /\ HandlerTags(voice_output') \in
           {<<"book.source.no_match">>, <<"book.destination.no_match">>,
            <<"modify.source.no_match">>, <<"modify.destination.no_match">>}

\* the source step of Book or of Modify recorded station
SourceRecorded(station) ==
    /\ ticket_details' = Put(ticket_details, "source", station)
    /\ IF current_operation = "book"
       THEN booking_step' = "destination"
       ELSE modify_step' = "select_field"

\* C15: the station resolver, given 'cntrl' and the catalog Central, Eastside,
\* selects no station, since neither 'cntrl' nor a station name contains the
\* other: a station step that hears 'cntrl' says it could not match the station
\* and holds. An utterance that contains or is contained in a name is resolved:
\* 'central station' to Central, 'east' to Eastside.
C15_AbbreviationMatchesNothing ==
    [][/\ MatchLoop("cntrl", ScenarioDCatalog, 1, None, 0) = None
       /\ MatchLoop("central station", ScenarioDCatalog, 1, None, 0) = "Central"
       /\ MatchLoop("east", ScenarioDCatalog, 1, None, 0) = "Eastside"
       /\ (StationTurn /\ heard' = "cntrl") => NoStationMatched
       /\ (StationTurn /\ heard' = "east"
              /\ (current_operation = "book" => booking_step = "source")
              /\ (current_operation = "modify" => modify_step = "update_source"))
             => SourceRecorded("Eastside")]_vars

\* 'cntrl' was heard at the source step of a booking, which holds
C15_Witness ==
    /\ current_operation = "book"
    /\ booking_step = "source"
    /\ heard = "cntrl"
    /\ "source" \notin DOMAIN ticket_details
    /\ HandlerTags(voice_output) = <<"book.source.no_match">>

\* C15 as stated: 'cntrl' is resolved to Central, in the resolver and at the
\* source steps
C15_AbbreviationSelectsCentral ==
    [][/\ MatchLoop("cntrl", ScenarioDCatalog, 1, None, 0) = "Central"
       /\ (StationTurn /\ heard' = "cntrl"
              /\ (current_operation = "book" => booking_step = "source")
              /\ (current_operation = "modify" => modify_step = "update_source"))
             => SourceRecorded("Central")]_vars

\* this turn is heard at the confirm step of a booking
BookConfirmTurn ==
    current_operation = "book" /\ booking_step = "confirm" /\ heard' # NoInput

\* the lowercased utterance of this turn contains word
Hears(word) == Contains(word, lower(heard'))

\* one ticket made of the buffered fields was appended to the store
BookedFromBuffer ==
    /\ Len(tickets') = Len(tickets) + 1
    /\ SubSeq(tickets', 1, Len(tickets)) = tickets
    /\ LET ticket == tickets'[Len(tickets')]
       IN /\ \A f \in DOMAIN ticket_details : ticket[f] = ticket_details[f]
          /\ \A i \in 1..Len(tickets) : tickets[i].id # ticket.id
    /\ current_operation' = None
    /\ booking_step' = None
    /\ ticket_details' = EmptyDict
    /\ HandlerTags(voice_output') = <<"book.confirm.booked">>

\* the booking was abandoned
BookingAbandoned ==
    /\ tickets' = tickets
    /\ current_operation' = None
    /\ booking_step' = None
    /\ ticket_details' = EmptyDict
    /\ HandlerTags(voice_output') = <<"book.confirm.cancelled">>

\* the confirm step asked again
BookConfirmRePrompted ==
    /\ UNCHANGED <<tickets, current_operation, booking_step, ticket_details>>
    /\ HandlerTags(voice_output') = <<"book.confirm.reprompt">>

\* C16: in the Book confirm step an utterance containing 'confirm' or 'yes'
\* appends exactly one ticket made of the buffered fields and returns to None
\* with a success notice; one containing 'cancel' or 'no' and neither 'confirm'
\* nor 'yes' leaves the store, clears the buffer and returns to None with a
\* notice; any other non-empty utterance changes nothing and re-prompts.
C16_BookConfirm ==
    [][BookConfirmTurn =>
          IF Hears("confirm") \/ Hears("yes") THEN BookedFromBuffer
          ELSE IF Hears("cancel") \/ Hears("no") THEN BookingAbandoned
          ELSE BookConfirmRePrompted]_vars

\* 'yes or no' was heard at the confirm step and the ticket was booked
C16_Witness ==
    /\ heard = "yes or no"
    /\ current_operation = None
    /\ Len(tickets) = 1
    /\ tickets[1].name = "Jane Doe"
    /\ ticket_details = EmptyDict
    /\ HandlerTags(voice_output) = <<"book.confirm.booked">>

\* this turn is heard at the confirm step of a cancellation
CancelConfirmTurn ==
    current_operation = "cancel" /\ cancel_step = "confirm" /\ heard' # NoInput

\* C17: in the Cancel confirm step every utterance containing 'no', 'keep' or
\* "don't" aborts: the store is unchanged, the selected ticket still present,
\* the selection cleared and the dialog back at None with a notice; a ticket is
\* deleted only on 'confirm', 'yes' or 'delete'.
C17_AbortKeywordsKeepTicket ==
    [][CancelConfirmTurn =>
          /\ (Hears("no") \/ Hears("keep") \/ Hears("don't")) =>
                 /\ tickets' = tickets
                 /\ get_ticket_by_id(selected_ticket_id, tickets') # EmptyDict
                 /\ selected_ticket_id' = None
                 /\ current_operation' = None
                 /\ HandlerTags(voice_output') = <<"cancel.confirm.aborted">>
          /\ tickets' # tickets =>
                 Hears("confirm") \/ Hears("yes") \/ Hears("delete")]_vars

\* the ticket id token of this turn's utterance; "" when it has none
HeardId == IF heard' = NoInput THEN "" ELSE SearchTicketId(upper(heard'))

\* this turn looks one stored ticket up by its id: in display_options by the id
\* alone or in a 'view ticket' / 'ticket id' phrase, or in ask_id
LookupTurn ==
    /\ current_operation = "view"
    /\ view_step \in {"display_options", "ask_id"}
    /\ HeardId # ""
    /\ get_ticket_by_id(HeardId, tickets) # EmptyDict
    /\ ~Hears("download")

\* C18: every successful single-ticket lookup in View, by id in display_options,
\* by id in ask_id, or by a 'view ticket' / 'ticket id' phrase with an id,
\* records the ticket's id as last_viewed_ticket_id and moves to view_options
\* with the operation still view.
C18_LookupRecordsLastViewed ==
    [][LookupTurn =>
          /\ last_viewed_ticket_id' = HeardId
          /\ view_step' = "view_options"
          /\ current_operation' = "view"]_vars

\* C18 without ask_id: the lookups of display_options
C18_DisplayOptionsLookup ==
    [][(LookupTurn /\ view_step = "display_options") =>
          /\ last_viewed_ticket_id' = HeardId
          /\ view_step' = "view_options"
          /\ current_operation' = "view"]_vars

\* this turn is heard in view_options and is neither a download command nor a
\* return to the main menu
OtherViewOptionsTurn ==
    /\ current_operation = "view"
    /\ view_step = "view_options"
    /\ heard' # NoInput
    /\ ~Hears("download")
    /\ ~(Hears("main") \/ Hears("menu") \/ Hears("back"))

\* C19: in view_options an utterance that is neither a download command nor a
\* return to the main menu leaves the operation at view and the step at
\* view_options, and re-displays the options with a prompt.
C19_OtherUtteranceStaysInViewOptions ==
    [][OtherViewOptionsTurn =>
          /\ current_operation' = "view"
          /\ view_step' = "view_options"
          /\ HandlerTags(voice_output') # <<>>]_vars

\* 'download ticket' is heard this turn in display_options or view_options
DownloadTicketTurn ==
    /\ current_operation = "view"
    /\ view_step \in {"display_options", "view_options"}
    /\ heard' = "download ticket"

\* C20: a download command resolves its target as explicit id, else last-viewed
\* id, else failure: 'download ticket', which names no id, heard in
\* display_options or view_options while last_viewed_ticket_id is the id of a
\* stored ticket prepares the download of that ticket, and the download run
\* then ends the operation at None; heard with no last-viewed id it gives the
\* 'view a ticket first' failure and prepares nothing.
C20_DownloadFallsBackToLastViewed ==
    [][/\ (DownloadTicketTurn /\ last_viewed_ticket_id # Unset
              /\ get_ticket_by_id(last_viewed_ticket_id, tickets) # EmptyDict) =>
             /\ ticket_id_to_download' = last_viewed_ticket_id
             /\ view_step' = "download_ticket"
       /\ (DownloadTicketTurn /\ last_viewed_ticket_id = Unset) =>
             /\ FirstNotice(voice_output') \in
                    {"view.download.unknown", "view.options.nothing_to_download"}
             /\ view_step' # "download_ticket"
             /\ ticket_id_to_download' = Unset
       /\ (current_operation = "view" /\ view_step = "download_ticket"
              /\ ticket_id_to_download # Unset
              /\ get_ticket_by_id(ticket_id_to_download, tickets) # EmptyDict) =>
             /\ current_operation' = None
             /\ FirstNotice(voice_output') = "view.download.ready"]_vars

\* a notice of the "all" listing
IsAllListingNotice(e) == e[1] \in {"view.all.header", "view.all.ticket", "view.all.none"}

\* the ticket listing within the notices of a run
AllListing(output) == SelectSeq(output, IsAllListingNotice)

\* this turn of display_options read the whole store out
ViewAllTurn ==
    /\ current_operation = "view"
    /\ view_step = "display_options"
    /\ FirstNotice(voice_output') \in {"view.all.header", "view.all.none"}

\* the listing is the store, ticket by ticket in store order
ListsTheStore(output, store) ==
    IF store = <<>> THEN AllListing(output) = << <<"view.all.none", <<>>>> >>
    ELSE /\ Len(AllListing(output)) = Len(store) + 1
         /\ AllListing(output)[1] = <<"view.all.header", <<Len(store)>>>>
         /\ \A i \in 1..Len(store) :
                AllListing(output)[i + 1] =
                    <<"view.all.ticket",
                      <<i, store[i].id, store[i].name, store[i].age, store[i].source,
                        store[i].destination, TravelDateStr(store[i]),
                        store[i].booking_time>>>>

\* the session after the 'view all' flow is issued once more, from the state
\* this turn leaves
ViewAllAgain == main(main(Session', "show all"), "all")

\* C21: no run of View changes the ticket store, and the 'view all' flow issued
\* twice in a row gives the same listing: the same tickets, in the same order,
\* with the same fields.
C21_ViewKeepsStore ==
    [][/\ current_operation = "view" => tickets' = tickets
       /\ ViewAllTurn =>
             /\ ListsTheStore(voice_output', tickets)
             /\ AllListing(ViewAllAgain.voice_output) = AllListing(voice_output')
             /\ ViewAllAgain.tickets = tickets]_vars

\* two tickets were just listed by 'all'
C21_Witness ==
    /\ heard = "all"
    /\ current_operation = None
    /\ Len(tickets) = 2
    /\ Len(AllListing(voice_output)) = 3

\* this turn commits a booking
BookCommitTurn ==
    /\ current_operation = "book"
    /\ booking_step = "confirm"
    /\ Len(tickets') = Len(tickets) + 1

\* the id returned by the booking of this turn
BookedId == tickets'[Len(tickets')].id

\* the ticket a run read out under tag: id, name, age, gender, source,
\* destination and travel date; <<>> when it read none
Surfaced(output, tag) ==
    LET hits == {i \in 1..Len(output) : output[i][1] = tag}
    IN IF hits = {} THEN <<>>
       ELSE SubSeq(output[CHOOSE i \in hits : TRUE][2], 1, 7)

\* the fields accepted into the buffer, as a lookup of id is to read them out
Submitted(id, details) ==
    <<id, details.name, details.age, details.gender, details.source,
      details.destination, strptime_iso(details.travel_date)>>

\* C22: once the confirm step has committed a booking, viewing by the returned
\* ticket id, in display_options or in ask_id, reads out a ticket whose name,
\* age, gender, source, destination and travel date are the values that were
\* accepted into the buffer during that booking.
C22_BookThenViewRoundTrip ==
    [][BookCommitTurn =>
          /\ Surfaced(main(main(Session', "show all"), BookedId).voice_output, "view.found")
                 = Submitted(BookedId, ticket_details)
          /\ Surfaced(main(main(Session', "lookup id"), BookedId).voice_output,
                      "view.ask_id.found")
                 = Submitted(BookedId, ticket_details)]_vars

\* a second booking, for John Smith, was just committed and can be looked up
C22_Witness ==
    /\ heard = "confirm"
    /\ current_operation = None
    /\ Len(tickets) = 2
    /\ Surfaced(main(main(Session, "show all"), tickets[2].id).voice_output, "view.found")[2]
           = "John Smith"

BookSteps == {"name", "age", "gender", "source", "destination", "travel_date", "confirm"}
ModifySteps ==
    {"select_ticket", "select_field", "update_name", "update_age", "update_gender",
     "update_source", "update_destination"}
CancelSteps == {"select_ticket", "confirm"}
ViewSteps == {"display_options", "ask_name", "ask_id", "download_ticket", "view_options"}

\* C23: in every reachable state current_operation is None, or the step variable
\* of the current operation holds one of that operation's sub-states.
C23_StepBelongsToOperation ==
    \/ current_operation = None
    \/ current_operation = "book" /\ booking_step \in BookSteps
    \/ current_operation = "modify" /\ modify_step \in ModifySteps
    \/ current_operation = "cancel" /\ cancel_step \in CancelSteps
    \/ current_operation = "view" /\ view_step \in ViewSteps

\* a lookup has moved View from display_options to view_options, after Book,
\* Modify and Cancel have each left their steps behind
C23_Witness ==
    /\ current_operation = "view"
    /\ view_step = "view_options"
    /\ booking_step = None
    /\ Len(tickets) = 1
    /\ issued = 2

\* C24: current_operation takes a value other than None only in a turn that
\* starts at the main menu, with current_operation None: no turn moves it from
\* one of book, modify, cancel, view to another of them.
C24_EntryOnlyFromMenu ==
    [][(current_operation' # None /\ current_operation' # current_operation)
          => current_operation = None]_vars

\* Cancel was entered from the main menu, right after a View operation ended
C24_Witness ==
    /\ current_operation = "cancel"
    /\ heard = "remove"
    /\ view_step = None
    /\ last_viewed_ticket_id # Unset

\* C25: every turn that takes current_operation from an operation to None,
\* whether by commit, abort, failure, listing, download or return to the main
\* menu, emits at least one notice in that turn.
C25_NoSilentTermination ==
    [][(current_operation # None /\ current_operation' = None)
          => HandlerTags(voice_output') # <<>>]_vars

\* View has just returned to the main menu from view_options
C25_Witness ==
    /\ current_operation = None
    /\ heard = "main menu"
    /\ view_step = None
    /\ HandlerTags(voice_output) = <<"view.options.main_menu">>

\* the session after the run of this turn, had the speech engine raised or not
RunUnder(raises) == RunFrom(UnderSpeech(Session, raises), heard')


\* what a run leaves in the session: every field but the engine's
Outcome(n) ==
    <<n.tickets, n.current_operation, n.booking_step, n.modify_step, n.cancel_step,
      n.view_step, n.ticket_details, n.selected_ticket_id, n.last_viewed_ticket_id,
      n.ticket_id_to_download, n.first_run, n.show_success, n.issued>>

\* the two runs end alike, as the turn did, and differ only in what was said
SameButSpeech(raised, spoke) ==
    /\ Outcome(raised) = Outcome(spoke)
    /\ Outcome(Session') = Outcome(raised)
    /\ raised.voice_output = voice_output'
    /\ spoke.voice_output = voice_output'
    /\ spoke.engine.said = Tags(voice_output')
    /\ raised.engine.said = <<>>

\* C26: a speech engine that raises inside display_text_as_voice alters nothing:
\* in every turn the operation, the steps, the buffer, the selection and the
\* store end up the same whether the engine speaks or raises, and every text is
\* shown, before the engine is tried, in both cases.
C26_SpeechFailureIsHarmless ==
    [][\A raised \in {RunUnder(TRUE)}, spoke \in {RunUnder(FALSE)} :
          SameButSpeech(raised, spoke)]_vars

\* a booking was just committed, in a run that showed its notice
C26_Witness ==
    /\ Len(tickets) = 1
    /\ heard = "confirm"
    /\ current_operation = None
    /\ HandlerTags(voice_output) = <<"book.confirm.booked">>

\* C27: at the main menu an utterance containing 'ticket id', 'find id',
\* 'search id', 'lookup id' or 'ticket number' enters View at the step ask_id.
C27_IdKeywordsEnterAskId ==
    [][(current_operation = None /\ heard' # NoInput
           /\ HasAny(ViewByIdKeywords, lower(heard')))
          => (current_operation' = "view" /\ view_step' = "ask_id")]_vars

\* C27 for the one keyword no earlier branch of the menu catches
C27_LookupIdEntersAskId ==
    [][(current_operation = None /\ heard' # NoInput /\ Hears("lookup id"))
          => (current_operation' = "view" /\ view_step' = "ask_id")]_vars

\* C28: in the ask_id step of View, saying 'main menu' returns the dialog to the
\* main menu, as the step's own prompts tell the user.
C28_AskIdMainMenuReturns ==
    [][(current_operation = "view" /\ view_step = "ask_id" /\ heard' = "main menu")
          => current_operation' = None]_vars

\* this turn of View is a name search that matches more than one ticket
AmbiguousViewSearch ==
    /\ current_operation = "view"
    /\ view_step \in {"display_options", "ask_name"}
    /\ FirstNotice(voice_output') = "view.name.header"
    /\ Len(get_tickets_by_name(heard', tickets)) > 1

\* C29: a name search in View, in display_options or ask_name, that matches more
\* than one ticket keeps the dialog in View, waiting for an utterance with a
\* ticket id, as Modify and Cancel do; it does not end the operation.
C29_AmbiguousViewSearchStays ==
    [][AmbiguousViewSearch => current_operation' = "view"]_vars

\* C30: whenever current_operation is None the field buffer is empty and
\* selected_ticket_id is None: every turn that ends Book, Modify or Cancel
\* clears them, and no turn at the main menu or in View sets them.
C30_IdleSessionIsClean ==
    current_operation = None => (ticket_details = EmptyDict /\ selected_ticket_id = None)

\* a modification with an edited buffer has just been abandoned
C30_Witness ==
    /\ current_operation = None
    /\ HandlerTags(voice_output) = <<"modify.field.cancelled">>
    /\ ticket_details = EmptyDict
    /\ selected_ticket_id = None
    /\ Len(tickets) = 2

-----------------------------------------------------------------------------
(* The store changes only where a ticket is committed *)

\* after is before with one ticket more at its end
OneAppended(before, after) ==
    /\ Len(after) = Len(before) + 1
    /\ SubSeq(after, 1, Len(before)) = before

\* after is before with at most the ticket id changed, in place
OnlySelectedChanged(before, after, id) ==
    /\ Len(after) = Len(before)
    /\ \A i \in 1..Len(before) :
          after[i] # before[i] => before[i].id = id /\ after[i].id = id

\* after is before without the one ticket id
ExactlySelectedRemoved(before, after, id) ==
    \E i \in 1..Len(before) :
        /\ before[i].id = id
        /\ after = SubSeq(before, 1, i - 1) \o SubSeq(before, i + 1, Len(before))

\* C31: the store changes only in a Book confirm turn (one ticket appended), a
\* Modify select_field turn (only the selected ticket, in place) and a Cancel
\* confirm turn (exactly the selected ticket removed); every other turn leaves
\* the store as it was.
C31_StoreChangesOnlyAtCommits ==
    [][tickets' # tickets =>
          \/ /\ current_operation = "book" /\ booking_step = "confirm"
             /\ OneAppended(tickets, tickets')
          \/ /\ current_operation = "modify" /\ modify_step = "select_field"
             /\ OnlySelectedChanged(tickets, tickets', selected_ticket_id)
          \/ /\ current_operation = "cancel" /\ cancel_step = "confirm"
             /\ ExactlySelectedRemoved(tickets, tickets', selected_ticket_id)]_vars

\* a Cancel confirm turn has removed one of two booked tickets
C31_Witness ==
    /\ Tags(voice_output) = <<"cancel.confirm.cancelled">>
    /\ issued = 2
    /\ Len(tickets) = 1

-----------------------------------------------------------------------------
(* Abandoning a modification *)

\* the field keywords and the commit keywords select_field tests before it
\* tests 'cancel' and 'abort'
SelectFieldEarlierKeywords ==
    {"name", "age", "gender", "source", "destination", "confirm", "update", "save"}

\* this turn is a select_field turn that hears 'cancel' or 'abort' and none of
\* the keywords tested earlier
ModifyAbandonTurn ==
    /\ current_operation = "modify"
    /\ modify_step = "select_field"
    /\ heard' # NoInput
    /\ ~HasAny(SelectFieldEarlierKeywords, lower(heard'))
    /\ HasAny({"cancel", "abort"}, lower(heard'))

\* C32: a select_field turn that hears 'cancel' or 'abort' (and no keyword
\* tested before them) ends the modification with a notice: the store is the
\* one the operation started with (no turn that continues a modification, and
\* not this one, changes it), the buffer and the selection are cleared,
\* modify_step is select_ticket again and current_operation is None.
C32_AbandonDiscardsEdits ==
    [][/\ (current_operation = "modify" /\ current_operation' = "modify"
              => tickets' = tickets)
       /\ (ModifyAbandonTurn =>
              /\ tickets' = tickets
              /\ ticket_details' = EmptyDict
              /\ selected_ticket_id' = None
              /\ modify_step' = "select_ticket"
              /\ current_operation' = None
              /\ Tags(voice_output') = <<"modify.field.cancelled">>)]_vars

\* a modification has just been abandoned with 'abort'
C32_Witness ==
    /\ heard = "abort"
    /\ Tags(voice_output) = <<"modify.field.cancelled">>
    /\ current_operation = None
    /\ tickets # <<>>

-----------------------------------------------------------------------------
(* The order of the Book steps *)

\* the Book steps in the order of the elif chain of process_booking
BookOrder == <<"name", "age", "gender", "source", "destination", "travel_date", "confirm">>

\* the place of a step in BookOrder
BookPlace(step) == CHOOSE i \in 1..Len(BookOrder) : BookOrder[i] = step

\* C33: a Book operation starts at name; each of its turns holds booking_step
\* or moves it to the next step of name, age, gender, source, destination,
\* travel_date, confirm, never further and never back; the operation is left
\* only from confirm, and then for the main menu.
C33_BookStepsInOrder ==
    [][/\ (current_operation # "book" /\ current_operation' = "book"
              => booking_step' = "name")
       /\ (current_operation = "book" /\ current_operation' = "book"
              => /\ booking_step' \in BookSteps
                 /\ \/ booking_step' = booking_step
                    \/ BookPlace(booking_step') = BookPlace(booking_step) + 1)
       /\ (current_operation = "book" /\ current_operation' # "book"
              => /\ booking_step = "confirm"
                 /\ current_operation' = None
                 /\ booking_step' = None)]_vars

\* a booking has reached its last step
C33_Witness ==
    /\ current_operation = "book"
    /\ booking_step = "confirm"
    /\ Tags(voice_output) = <<"book.date.recorded", "book.date.please_confirm">>

-----------------------------------------------------------------------------
(* The gender step *)

\* the gender an utterance names: Female when it contains 'female', Male when
\* it contains 'male' and not 'female', Other for anything else
ExpectedGender(utterance) ==
    IF Contains("female", lower(utterance)) THEN "Female"
    ELSE IF Contains("male", lower(utterance)) THEN "Male"
    ELSE "Other"

\* the buffer holds gender
GenderRecorded(details, gender) == "gender" \in DOMAIN details /\ details.gender = gender

\* C34: the gender step of Book and of Modify takes every utterance that is
\* not empty: it records Female, Male or Other as the utterance names it and
\* advances, to source in Book and to select_field in Modify.
C34_GenderNeverRejected ==
    [][/\ (current_operation = "book" /\ booking_step = "gender" /\ heard' # NoInput
              => /\ GenderRecorded(ticket_details', ExpectedGender(heard'))
                 /\ current_operation' = "book"
                 /\ booking_step' = "source")
       /\ (current_operation = "modify" /\ modify_step = "update_gender"
              /\ heard' # NoInput
              => /\ GenderRecorded(ticket_details', ExpectedGender(heard'))
                 /\ current_operation' = "modify"
                 /\ modify_step' = "select_field")]_vars

\* an utterance with both keywords has been recorded as Female in a booking
C34_Witness ==
    /\ heard = "male or female"
    /\ current_operation = "book"
    /\ booking_step = "source"
    /\ GenderRecorded(ticket_details, "Female")

-----------------------------------------------------------------------------
(* The station resolver *)

\* the station names in every catalog order
Catalogs ==
    LET names == {get_station_list[i] : i \in 1..Len(get_station_list)}
    IN {c \in names \X names \X names : c[1] # c[2] /\ c[2] # c[3] /\ c[1] # c[3]}

\* one of the utterance and the station name, both in lowercase, is part of
\* the other
IsCandidate(utterance, station) ==
    \/ Contains(lower(utterance), lower(station))
    \/ Contains(lower(station), lower(utterance))

\* the number of distinct characters the utterance and the station name share
Overlap(utterance, station) ==
    Cardinality(CharSet(lower(utterance)) \cap CharSet(lower(station)))

\* the candidate of catalog with the largest overlap, the earliest of several,
\* or None without a candidate
ExpectedStation(utterance, catalog) ==
    LET candidates == {i \in 1..Len(catalog) : IsCandidate(utterance, catalog[i])}
    IN IF candidates = {} THEN None
       ELSE catalog[CHOOSE i \in candidates :
                       \A j \in candidates :
                           \/ Overlap(utterance, catalog[i]) > Overlap(utterance, catalog[j])
                           \/ /\ Overlap(utterance, catalog[i]) = Overlap(utterance, catalog[j])
                              /\ i <= j]

\* what a station step does with the station the resolver returned
StationStepTakes(station) ==
    IF station = None THEN NoStationMatched
    ELSE IF current_operation = "book" /\ booking_step = "source"
    THEN /\ ticket_details' = Put(ticket_details, "source", station)
         /\ booking_step' = "destination"
    ELSE IF current_operation = "modify" /\ modify_step = "update_source"
    THEN /\ ticket_details' = Put(ticket_details, "source", station)
         /\ modify_step' = "select_field"
    ELSE IF SameAsSource(ticket_details, station)
    THEN /\ UNCHANGED <<booking_step, modify_step, ticket_details>>
         /\ HandlerTags(voice_output') \in {<<"book.destination.same_as_source">>,
                                            <<"modify.destination.same_as_source">>}
    ELSE /\ ticket_details' = Put(ticket_details, "destination", station)
         /\ IF current_operation = "book"
            THEN booking_step' = "travel_date"
            ELSE modify_step' = "select_field"

\* C35: the resolver returns, of the stations that contain the lowercased
\* utterance or are contained in it, the one that shares the most distinct
\* characters with it, the earliest in the catalog among equals, and None when
\* there is none, whatever the order of the catalog; the source and destination
\* steps of Book and of Modify all act on that station.
C35_ResolverPicksBestCandidate ==
    [][StationTurn /\ heard' # NoInput =>
          /\ \A catalog \in Catalogs :
                MatchLoop(heard', catalog, 1, None, 0) = ExpectedStation(heard', catalog)
          /\ StationStepTakes(ExpectedStation(heard', get_station_list))]_vars

\* 'T' is part of Central, Eastside and North alike: the source step of a
\* modification took the first of them
C35_Witness ==
    /\ heard = "T"
    /\ current_operation = "modify"
    /\ modify_step = "select_field"
    /\ ticket_details.source = "Central"
    /\ HandlerTags(voice_output) = <<"modify.source.updated">>

-----------------------------------------------------------------------------
(* The travel date step *)

\* each date of ClockDates, in ISO form
SameDay(date) == IF date = <<2026, 11, 3>> THEN "2026-11-03" ELSE "2026-12-31"

\* the probes that name a day its month does not have in the current year
ImpossibleDateProbes == {"february 30", "february 29", "April 31"}

\* the date an utterance names on the day now, in ISO form: the day after for
\* 'tomorrow', the day itself for 'today', the named day of the current year
\* for a month and a day; None for every other utterance
ExpectedTravelDate(utterance, now) ==
    IF utterance \in {"tomorrow", "see you tomorrow"} THEN DayAfter(now)
    ELSE IF utterance = "today" THEN SameDay(now)
    ELSE IF utterance \in {"March 30", "30 march"} THEN "2026-03-30"
    ELSE IF utterance = "december 31" THEN "2026-12-31"
    ELSE None

\* this turn is heard at the travel date step of a booking
TravelDateTurn ==
    current_operation = "book" /\ booking_step = "travel_date" /\ heard' # NoInput

\* C36: the travel date step advances to confirm only with a date: 'tomorrow'
\* records the day after the current date, 'today' the current date, a month
\* name with a day that day of the current year. A day the month does not have,
\* and an utterance with neither keyword nor month and day, hold the step, leave
\* the buffer without a travel date and re-prompt.
C36_TravelDateResolvedOrHeld ==
    [][TravelDateTurn =>
          IF ExpectedTravelDate(heard', today) # None
          THEN /\ ticket_details' =
                      Put(ticket_details, "travel_date", ExpectedTravelDate(heard', today))
               /\ booking_step' = "confirm"
               /\ current_operation' = "book"
          ELSE /\ booking_step' = "travel_date"
               /\ current_operation' = "book"
               /\ ticket_details' = ticket_details
               /\ "travel_date" \notin DOMAIN ticket_details'
               /\ HandlerTags(voice_output') =
                      IF heard' \in ImpossibleDateProbes
                      THEN <<"book.date.invalid">>
                      ELSE <<"book.date.not_understood">>]_vars

\* February 30 was heard at the travel date step, which holds
C36_Witness ==
    /\ heard = "february 30"
    /\ current_operation = "book"
    /\ booking_step = "travel_date"
    /\ "travel_date" \notin DOMAIN ticket_details
    /\ HandlerTags(voice_output) = <<"book.date.invalid">>

-----------------------------------------------------------------------------
(* The selected ticket *)

\* a ticket has been selected for the operation under way
TicketSelected ==
    \/ current_operation = "modify" /\ modify_step # "select_ticket"
    \/ current_operation = "cancel" /\ cancel_step = "confirm"

\* the notices of the branches taken when the selected ticket is not found
SelectionErrorTags == {"modify.field.update_error", "cancel.confirm.error"}

\* C37: once Modify has left select_ticket, and in the confirm step of Cancel,
\* selected_ticket_id is the id of a ticket in the store; the lookup of
\* select_field finds it, and neither 'Error updating ticket' nor 'Error
\* cancelling ticket' is ever said.
C37_SelectedTicketIsStored ==
    /\ TicketSelected => \E i \in 1..Len(tickets) : tickets[i].id = selected_ticket_id
    /\ \A i \in 1..Len(voice_output) : voice_output[i][1] \notin SelectionErrorTags

\* the second of two stored tickets is about to be cancelled
C37_Witness ==
    /\ current_operation = "cancel"
    /\ cancel_step = "confirm"
    /\ Len(tickets) = 2
    /\ selected_ticket_id = tickets[2].id

-----------------------------------------------------------------------------
(* Modify and Cancel need a ticket *)

\* this turn is heard at the main menu with an empty store and is taken by the
\* modify or the cancel branch: it has one of their keywords and none of Book's,
\* which is tested first
ModifyOrCancelWithoutTickets ==
    /\ current_operation = None
    /\ tickets = <<>>
    /\ heard' # NoInput
    /\ ~HasAny(BookKeywords, lower(heard'))
    /\ HasAny(ModifyKeywords \cup CancelKeywords, lower(heard'))

\* C38: a turn that ends in Modify or in Cancel ends with a ticket in the store;
\* with an empty store the modify and the cancel command get a notice and the
\* dialog stays at the main menu.
C38_ModifyAndCancelNeedTickets ==
    [][/\ (current_operation' \in {"modify", "cancel"} => tickets' # <<>>)
       /\ (ModifyOrCancelWithoutTickets =>
              /\ current_operation' = None
              /\ HandlerTags(voice_output') \in
                     {<<"menu.modify.none">>, <<"menu.cancel.none">>}
              /\ UNCHANGED <<tickets, modify_step, cancel_step, selected_ticket_id>>)]_vars

\* 'remove' was heard at the main menu with an empty store
C38_Witness ==
    /\ heard = "remove"
    /\ tickets = <<>>
    /\ current_operation = None
    /\ HandlerTags(voice_output) = <<"menu.cancel.none">>

-----------------------------------------------------------------------------
(* The buffer at the confirm step *)

\* the fields the confirm step of Book passes to book_ticket
BookedFields == {"name", "age", "gender", "source", "destination", "travel_date"}

\* C39: whenever booking_step is confirm the buffer holds name, age, gender,
\* source, destination and travel_date, so the commit reads no missing field,
\* and every ticket in the store has a travel date.
C39_ConfirmHasAllFields ==
    /\ booking_step = "confirm" => BookedFields \subseteq DOMAIN ticket_details
    /\ \A i \in 1..Len(tickets) : tickets[i].travel_date \notin {None, NoInput}

\* a second booking has arrived at its confirm step
C39_Witness ==
    /\ current_operation = "book"
    /\ booking_step = "confirm"
    /\ Len(tickets) = 1
    /\ DOMAIN ticket_details = BookedFields

-----------------------------------------------------------------------------
(* Downloading a ticket that is no longer stored *)

\* no ticket of the store has the id
NotStored(id, store) == \A i \in 1..Len(store) : store[i].id # id

\* the id a download utterance resolves to: its id token, else the last-viewed
\* ticket, else Unset
DownloadId(utterance, last_viewed) ==
    IF SearchTicketId(upper(lower(utterance))) # ""
    THEN SearchTicketId(upper(lower(utterance)))
    ELSE last_viewed

\* this run is the download step, for an id no ticket of the store has
StaleDownloadRun ==
    /\ current_operation = "view"
    /\ view_step = "download_ticket"
    /\ ticket_id_to_download # Unset
    /\ NotStored(ticket_id_to_download, tickets)

\* this turn hears a download command in view_options that resolves to an id
\* no ticket of the store has
StaleDownloadAtOptions ==
    /\ current_operation = "view"
    /\ view_step = "view_options"
    /\ heard' # NoInput
    /\ Contains("download", lower(heard'))
    /\ DownloadId(heard', last_viewed_ticket_id) # Unset
    /\ NotStored(DownloadId(heard', last_viewed_ticket_id), tickets)

\* this turn hears a download command in display_options (and not the words
\* of a lookup, which are tested first) that resolves to an id
DownloadAtDisplayOptions ==
    /\ current_operation = "view"
    /\ view_step = "display_options"
    /\ heard' # NoInput
    /\ Contains("download", lower(heard'))
    /\ ~(Contains("view", lower(heard')) /\ Contains("ticket", lower(heard')))
    /\ ~Contains("ticket id", lower(heard'))
    /\ DownloadId(heard', last_viewed_ticket_id) # Unset

\* the download failed: a failure notice, View at display_options, the store
\* as it was
DownloadFailed(tag) ==
    /\ HandlerTags(voice_output') = <<tag>>
    /\ current_operation' = "view"
    /\ view_step' = "display_options"
    /\ tickets' = tickets

\* C40: last_viewed_ticket_id, once set, is never cleared, so it can name a
\* ticket that was cancelled since; a download command in display_options hands
\* the id it resolves to (its id token, else the last-viewed ticket) to the
\* download step; the download step, and a download command in view_options,
\* for an id that is not in the store say that the ticket was not found, prepare
\* no download, and leave the dialog in View at display_options with the store
\* unchanged.
C40_StaleDownloadFails ==
    [][/\ (last_viewed_ticket_id # Unset
              => last_viewed_ticket_id' \notin {Unset, None})
       /\ (DownloadAtDisplayOptions
              => /\ view_step' = "download_ticket"
                 /\ ticket_id_to_download' = DownloadId(heard', last_viewed_ticket_id)
                 /\ current_operation' = "view"
                 /\ tickets' = tickets)
       /\ (StaleDownloadRun => DownloadFailed("view.download.not_found"))
       /\ (StaleDownloadAtOptions => DownloadFailed("view.options.not_found"))]_vars

\* the download of the last-viewed ticket has failed: the ticket was cancelled
\* after it was viewed, and the store holds another one
C40_Witness ==
    /\ current_operation = "view"
    /\ view_step = "display_options"
    /\ HandlerTags(voice_output) = <<"view.download.not_found">>
    /\ last_viewed_ticket_id \notin {Unset, None}
    /\ ticket_id_to_download = last_viewed_ticket_id
    /\ NotStored(last_viewed_ticket_id, tickets)
    /\ last_viewed_ticket_id \in {IdPool[i] : i \in 1..issued}
    /\ tickets # <<>>
====
